---- MODULE Spec2Model ----
(***************************************************************************)
(* papergen: the multi-LLM fan-out (ai/multi_llm.py), the provider clients *)
(* (ai/claude_client.py, ai/openai_client.py) and their retrying HTTP path. *)
(* One dispatch of MultiLLMManager.generate_parallel is modelled thread by *)
(* thread: the main thread submits one task per configuration and collects *)
(* the futures with as_completed; each pool worker runs _generate_single,  *)
(* whose steps are split at every read or write of the shared client cache *)
(* and at every network call and backoff sleep.                            *)
(***************************************************************************)
EXTENDS Integers, Sequences, FiniteSets, TLC

\* ------------------------------------------------------------------ bounds
\* add_llm calls made before the dispatch
MaxAdds == 2

\* ------------------------------------------------------- program constants
\* claude_client.py:156  max_retries = 3
max_retries == 3
\* claude_client.py:157  retry_delay = 1.0
initial_retry_delay == 1
\* claude_client.py:205  the one status that is retried
BadGateway == 502
\* multi_llm.py:106  max_workers: int = 5
default_max_workers == 5

\* Python's None, and the empty string
None == "<None>"
Empty == ""

\* ------------------------------------------------------------ value spaces
\* LLMConfig values handed to add_llm.  A1 has a base_url, so its client
\* takes the retrying requests path (an anthropic configuration without one
\* takes the SDK path, one call like the openai clients).  O1 and O2 share
\* provider and model, hence the cache key, but differ in credential and
\* endpoint.  D1 is a disabled configuration.
A1 == [provider |-> "anthropic", model |-> "m1", api_key |-> "k1", base_url |-> "u1", enabled |-> TRUE]
O1 == [provider |-> "openai", model |-> "m1", api_key |-> "k1", base_url |-> None, enabled |-> TRUE]
O2 == [provider |-> "openai", model |-> "m1", api_key |-> "k2", base_url |-> "u2", enabled |-> TRUE]
D1 == [provider |-> "openai", model |-> "m1", api_key |-> "k1", base_url |-> None, enabled |-> FALSE]
ConfigUniverse == {A1, O1, O2, D1}

\* pool widths handed to generate_parallel: the serial pool and the default
PoolWidths == {1, default_max_workers}

\* What one HTTP attempt of the requests path can meet (claude_client.py:162-180).
\*   "transport": session.post raises requests' Timeout or ConnectionError,
\*                which the one handler at line 193 catches alike
\*   "http":      a 4xx/5xx response arrived and raise_for_status raises HTTPError
\*   "body":      a 200 response whose content[0].text is a string (it may be
\*                empty) or, for text = None, a JSON null
\*   "malformed": a 200 response that does not decode or lacks the text or
\*                usage keys (ValueError, KeyError, IndexError, TypeError)
AttemptOutcomes ==
    { [kind |-> "transport", status |-> 0, text |-> None],
      [kind |-> "http", status |-> 502, text |-> None],
      [kind |-> "http", status |-> 401, text |-> None],
      [kind |-> "http", status |-> 500, text |-> None],
      [kind |-> "body", status |-> 200, text |-> "t1"],
      [kind |-> "body", status |-> 200, text |-> Empty],
      [kind |-> "body", status |-> 200, text |-> None],
      [kind |-> "malformed", status |-> 200, text |-> None] }

\* What the one SDK call of the other clients can meet (claude_client.py:119-124,
\* openai_client.py:118-126): the call or the unpacking of its envelope raises,
\* or the envelope carries a text, an empty text or null
CallOutcomes ==
    { [kind |-> "raise", status |-> 0, text |-> None],
      [kind |-> "body", status |-> 200, text |-> "t1"],
      [kind |-> "body", status |-> 200, text |-> Empty],
      [kind |-> "body", status |-> 200, text |-> None] }

\* str(e) of the exception an outcome raises
Cause(out) ==
    CASE out.kind = "transport" -> "ConnectionError"
      [] out.kind = "http" /\ out.status = 502 -> "502 Server Error"
      [] out.kind = "http" /\ out.status = 401 -> "401 Client Error"
      [] out.kind = "http" -> "500 Server Error"
      [] out.kind = "malformed" -> "KeyError"
      [] OTHER -> "APIError"

VARIABLES
    llm_configs,    \* MultiLLMManager.llm_configs
    clients,        \* MultiLLMManager._clients: key -> client
    addCalls,       \* history: every configuration passed to add_llm
    mainPc,         \* position of the caller of generate_parallel
    max_workers,    \* the pool width of the running dispatch
    dispatchNo,     \* number of generate_parallel calls made
    tasks,          \* the submitted tasks and their futures, in submission order
    finished,       \* as_completed: futures that finished since, in that order
    early,          \* as_completed: futures found finished when it was called
    responses,      \* the local list `responses` of generate_parallel
    raised,         \* the exception generate_parallel raised, or None
    tracing,        \* whether the calls of this behaviour are recorded
    trace           \* history: the network calls, sleeps and ends of the calls

\* IdeaGenerator._parse_ideas (discovery/brainstorm.py), one call
VARIABLES
    response,       \* the argument of _parse_ideas
    parsePc,        \* "given" before the call, "parsed" after it
    parsed          \* how the call ended: the list returned or the exception

\* IdeaGenerator._summarize_ideas (discovery/brainstorm.py), one call
VARIABLES
    all_ideas,      \* the argument of _summarize_ideas
    summaryPc,      \* "given", "called" (inside self.client.generate), "done"
    generateCalls,  \* history: the calls of self.client.generate made
    summary         \* how the call ended: the dict returned or the exception

\* ClaudeClient.validate_api_key (ai/claude_client.py)
VARIABLES
    probe,          \* the client probed and the locals of the running call
    probeNo,        \* number of validate_api_key calls made
    probeTrace      \* history: the posts, sleeps and the end of the last call

\* IdeaGenerator._generate_multi_llm (discovery/brainstorm.py), one run
VARIABLES
    results,        \* the list generate_parallel returned to the run
    reports,        \* IdeaGenerator.reports
    self_summary,   \* IdeaGenerator.summary
    self_ideas,     \* IdeaGenerator.ideas
    runPc,          \* "dispatch" (inside generate_parallel), "summarize"
                    \* (inside _summarize_ideas), "returned", "raised"
    runNo,          \* history: number of _generate_multi_llm calls made
    origin          \* history: the call that assigned reports, summary, ideas

managerVars == <<llm_configs, clients, addCalls, mainPc, max_workers, dispatchNo, tasks,
                 finished, early, responses, raised, tracing, trace>>
parserVars == <<response, parsePc, parsed>>
reconcilerVars == <<all_ideas, summaryPc, generateCalls, summary>>
probeVars == <<probe, probeNo, probeTrace>>
runVars == <<results, reports, self_summary, self_ideas, runPc, runNo, origin>>
otherVars == <<parserVars, reconcilerVars, probeVars, runVars>>

vars == <<managerVars, otherVars>>

\* ------------------------------------------------------------------ helpers
NoClient == [kind |-> "none"]
NoOutcome == [kind |-> "none", status |-> 0, text |-> None]
NoGen == [ok |-> FALSE, value |-> None]
NoResponse == [provider |-> None, model |-> None, content |-> None, success |-> FALSE,
               error |-> None, task |-> 0, exception |-> None]

Range(s) == { s[i] : i \in DOMAIN s }

\* multi_llm.py:48  key = f"{config.provider}_{config.model}"
Key(config) == config.provider \o "_" \o config.model

\* claude_client.py:17-44 / openai_client.py:12-42: the client built for a
\* configuration; id names the instance (dispatch, constructing task)
NewClient(config, id) ==
    IF config.provider = "anthropic"
    THEN [kind |-> "ClaudeClient", id |-> id, provider |-> config.provider,
          model |-> config.model, api_key |-> config.api_key,
          base_url |-> config.base_url,
          use_direct_http |-> (config.base_url # None)]
    ELSE [kind |-> "OpenAIClient", id |-> id, provider |-> config.provider,
          model |-> config.model, api_key |-> config.api_key,
          base_url |-> config.base_url,
          use_direct_http |-> FALSE]

\* claude_client.py:99 / openai_client.py:139: the one error a client raises
WrapError(client, cause) ==
    IF client.kind = "ClaudeClient"
    THEN "Claude API error: " \o cause
    ELSE client.provider \o " API error: " \o cause

\* multi_llm.py:84-89; `task` is not a field of LLMResponse: it names the
\* future the value belongs to, and `exception` is the future's exception
SuccessResponse(config, content, i) ==
    [provider |-> config.provider, model |-> config.model, content |-> content,
     success |-> TRUE, error |-> None, task |-> i, exception |-> None]

\* mutant: the except clause forgets error=str(e)
FailureResponseNoError(config, message, i) ==
    [provider |-> config.provider, model |-> config.model, content |-> Empty,
     success |-> FALSE, error |-> None, task |-> i, exception |-> None]

\* multi_llm.py:90-98
FailureResponse(config, message, i) ==
    [provider |-> config.provider, model |-> config.model, content |-> Empty,
     success |-> FALSE, error |-> message, task |-> i, exception |-> None]

\* a submitted task: its future (pc, response) and, while it runs, the locals
\* of _get_client and of the client's generate.  Once the task is done, out
\* is the outcome of its last network call and gen is how client.generate
\* ended.
NewTask(config) ==
    [config |-> config, pc |-> "queued", client |-> NoClient, attempt |-> 0,
     retry_delay |-> initial_retry_delay, out |-> NoOutcome, gen |-> NoGen,
     response |-> NoResponse]

\* the history tr with one more event, when the behaviour is recorded
Record(tr, event) == IF tracing THEN Append(tr, event) ELSE tr

\* how the call inside client.generate ended: it returned or it raised
NoInner == [returned |-> FALSE, value |-> None]

Running == { i \in DOMAIN tasks : tasks[i].pc \notin {"queued", "done"} }
Done == { i \in DOMAIN tasks : tasks[i].pc = "done" }

\* a variable of an object that is not constructed or a call that is not made
Unset == [kind |-> "unset"]

\* multi_llm.py:34-38  a manager just constructed, no history recorded
ManagerIdle ==
    /\ llm_configs = <<>>
    /\ clients = [k \in {} |-> NoClient]
    /\ addCalls = <<>>
    /\ mainPc = "idle"
    /\ max_workers = 0
    /\ dispatchNo = 0
    /\ tasks = <<>>
    /\ finished = <<>>
    /\ early = {}
    /\ responses = <<>>
    /\ raised = None
    /\ tracing = FALSE
    /\ trace = <<>>

\* no _parse_ideas call, no _summarize_ideas call, no client under probe
ParserIdle == response = Unset /\ parsePc = "idle" /\ parsed = Unset
ReconcilerIdle ==
    all_ideas = <<>> /\ summaryPc = "idle" /\ generateCalls = <<>> /\ summary = Unset
ProbeIdle == probe = Unset /\ probeNo = 0 /\ probeTrace = <<>>
\* brainstorm.py:30-33  an IdeaGenerator just constructed: [], [], {}
RunIdle ==
    /\ results = <<>>
    /\ reports = <<>>
    /\ self_summary = [t |-> "dict", v |-> <<>>]
    /\ self_ideas = [t |-> "list", v |-> <<>>]
    /\ runPc = "idle"
    /\ runNo = 0
    /\ origin = [reports |-> 0, summary |-> 0, ideas |-> 0]

\* ---------------------------------------------------------------- initial
\* multi_llm.py:34-38  MultiLLMManager.__init__
Init ==
    /\ llm_configs = <<>>
    /\ clients = [k \in {} |-> NoClient]
    /\ addCalls = <<>>
    /\ mainPc = "idle"
    /\ max_workers = 0
    /\ dispatchNo = 0
    /\ tasks = <<>>
    /\ finished = <<>>
    /\ early = {}
    /\ responses = <<>>
    /\ raised = None
    /\ tracing = FALSE
    /\ trace = <<>>
    /\ ParserIdle /\ ReconcilerIdle /\ ProbeIdle /\ RunIdle

\* --------------------------------------------------- the caller's thread
\* mutant: add_llm without the test of line 42
AddLLMUnfiltered(config) ==
    /\ mainPc = "idle"
    /\ Len(addCalls) < MaxAdds
    /\ addCalls' = Append(addCalls, config)
    /\ llm_configs' = Append(llm_configs, config)
    /\ UNCHANGED <<clients, mainPc, max_workers, dispatchNo, tasks, finished, early,
                   responses, raised, tracing, otherVars, trace>>

\* multi_llm.py:40-44  add_llm
AddLLM(config) ==
    /\ mainPc = "idle"
    /\ Len(addCalls) < MaxAdds
    /\ addCalls' = Append(addCalls, config)
    /\ llm_configs' = IF config.enabled THEN Append(llm_configs, config) ELSE llm_configs
    /\ UNCHANGED <<clients, mainPc, max_workers, dispatchNo, tasks, finished, early,
                   responses, raised, tracing, otherVars, trace>>

\* mutant: generate_parallel without the guard of line 109
DispatchNoGuard(w) ==
    /\ mainPc = "idle"
    /\ dispatchNo' = dispatchNo + 1
    /\ mainPc' = "submit"
    /\ max_workers' = w
    /\ UNCHANGED <<llm_configs, clients, addCalls, tasks, finished, early, responses,
                   raised, tracing, otherVars, trace>>

\* multi_llm.py:109-115  the guard, then the pool is created
Dispatch(w) ==
    /\ mainPc = "idle"
    /\ dispatchNo' = dispatchNo + 1
    /\ IF Len(llm_configs) = 0
       THEN /\ mainPc' = "raised"
            /\ raised' = "No LLMs configured"
            /\ UNCHANGED max_workers
       ELSE /\ mainPc' = "submit"
            /\ max_workers' = w
            /\ UNCHANGED raised
    /\ UNCHANGED <<llm_configs, clients, addCalls, tasks, finished, early, responses,
                   tracing, otherVars, trace>>

\* multi_llm.py:116-122  executor.submit for the next configuration
Submit ==
    /\ mainPc = "submit"
    /\ Len(tasks) < Len(llm_configs)
    /\ tasks' = Append(tasks, NewTask(llm_configs[Len(tasks) + 1]))
    /\ UNCHANGED <<llm_configs, clients, addCalls, mainPc, max_workers, dispatchNo,
                   finished, early, responses, raised, tracing, otherVars, trace>>

\* multi_llm.py:124  as_completed(futures) is entered: the futures already
\* finished are set aside (they are yielded first, in the iteration order of
\* a set), the others are waited for
AsCompleted ==
    /\ mainPc = "submit"
    /\ Len(tasks) = Len(llm_configs)
    /\ mainPc' = "collect"
    /\ early' = Done
    /\ UNCHANGED <<llm_configs, clients, addCalls, max_workers, dispatchNo, tasks,
                   finished, responses, raised, tracing, otherVars, trace>>

\* the futures as_completed may yield next
NextYield ==
    IF early # {} THEN early
    ELSE IF finished = <<>> THEN {}
    ELSE {Head(finished)}

\* multi_llm.py:124-130  one iteration of the collecting loop: future.result()
\* returns the response, or raises the exception the task ended with
Collect(i) ==
    /\ mainPc = "collect"
    /\ i \in NextYield
    /\ early' = early \ {i}
    /\ finished' = SelectSeq(finished, LAMBDA j : j # i)
    /\ IF tasks[i].response.exception # None
       THEN /\ mainPc' = "raised"
            /\ raised' = tasks[i].response.exception
            /\ UNCHANGED responses
       ELSE /\ responses' = Append(responses, tasks[i].response)
            /\ UNCHANGED <<mainPc, raised>>
    /\ UNCHANGED <<llm_configs, clients, addCalls, max_workers, dispatchNo, tasks,
                   tracing, otherVars, trace>>

\* mutant: `return responses` inside the collecting loop
ReturnInsideLoop ==
    /\ mainPc = "collect"
    /\ Len(responses) >= 1
    /\ Done = DOMAIN tasks
    /\ mainPc' = "returned"
    /\ UNCHANGED <<llm_configs, clients, addCalls, max_workers, dispatchNo, tasks,
                   finished, early, responses, raised, tracing, otherVars, trace>>

\* mutant: a return that leaves the manager without its configurations
ReturnForgetsConfigs ==
    /\ mainPc = "collect"
    /\ Len(responses) = Len(tasks)
    /\ Done = DOMAIN tasks
    /\ mainPc' = "returned"
    /\ llm_configs' = <<>>
    /\ UNCHANGED <<clients, addCalls, max_workers, dispatchNo, tasks,
                   finished, early, responses, raised, tracing, otherVars, trace>>

\* mutant: a return after the first result, from a pool that is shut down
\* without waiting for its workers
ReturnNoWait ==
    /\ mainPc = "collect"
    /\ Len(responses) >= 1
    /\ mainPc' = "returned"
    /\ UNCHANGED <<llm_configs, clients, addCalls, max_workers, dispatchNo, tasks,
                   finished, early, responses, raised, tracing, otherVars, trace>>

\* multi_llm.py:115,132  the loop is exhausted, the pool is shut down
\* (shutdown waits for the workers) and the list is returned
Return ==
    /\ mainPc = "collect"
    /\ Len(responses) = Len(tasks)
    /\ Done = DOMAIN tasks
    /\ mainPc' = "returned"
    /\ UNCHANGED <<llm_configs, clients, addCalls, max_workers, dispatchNo, tasks,
                   finished, early, responses, raised, tracing, otherVars, trace>>

\* ------------------------------------------------------ the pool's workers
\* what ClaudeClient.generate / OpenAIClient.generate does with the text its
\* inner call returned: claude_client.py:94-95 takes len(result), which raises
\* on None and is wrapped at 97-99; openai_client.py:122,135 returns it as is
GenerateReturn(client, text) ==
    IF client.kind = "ClaudeClient" /\ text = None
    THEN [ok |-> FALSE, value |-> WrapError(client, "object of type 'NoneType' has no len()")]
    ELSE [ok |-> TRUE, value |-> text]

\* mutant: generate without its except clause: the exception of the inner
\* call crosses generate as it is
GenerateRaiseRaw(client, cause) == [ok |-> FALSE, value |-> cause]

\* claude_client.py:97-99 / openai_client.py:137-139
GenerateRaise(client, cause) == [ok |-> FALSE, value |-> WrapError(client, cause)]

\* mutant: _generate_single without its try/except: the exception of
\* client.generate becomes the exception of the future
GenerateSingleNoCatch(config, r, i) ==
    IF r.ok THEN SuccessResponse(config, r.value, i)
    ELSE [NoResponse EXCEPT !.task = i, !.exception = r.value]

\* multi_llm.py:76-98  what _generate_single of task i returns, given how
\* client.generate ended
GenerateSingle(config, r, i) ==
    IF r.ok THEN SuccessResponse(config, r.value, i) ELSE FailureResponse(config, r.value, i)

\* mutant: the test of line 195 off by one
RetryTransportOffByOne(attempt) == attempt < max_retries

\* claude_client.py:195  retry after Timeout / ConnectionError
RetryTransport(attempt) == attempt < max_retries - 1

\* mutant: the handler of line 202 never retries
RetryHttpNever(status, attempt) == FALSE

\* mutant: the handler of line 202 retries every HTTPError
RetryHttpAny(status, attempt) == attempt < max_retries - 1

\* mutant: the handler of line 202 retries a 502 on the last attempt too
RetryHttpOffByOne(status, attempt) == status = BadGateway /\ attempt < max_retries

\* claude_client.py:205  retry after an HTTPError
RetryHttp(status, attempt) == status = BadGateway /\ attempt < max_retries - 1

\* the future of task i finishes with the value _generate_single returned:
\* the frames of the call are gone, the future keeps the response, and the
\* waiter of a running as_completed is told
Finish(i, gen, out, resp) ==
    /\ tasks' = [tasks EXCEPT ![i] = [NewTask(tasks[i].config) EXCEPT
                    !.pc = "done", !.out = out, !.gen = gen, !.response = resp]]
    /\ finished' = IF mainPc = "collect" THEN Append(finished, i) ELSE finished

\* mutant: the retry loop without its finally clause: a return leaves the
\* session of its attempt open
StepsNoFinally(pc, out, retry) ==
    CASE out.kind = "fall" -> <<"return">>
      [] pc = "call" /\ out.kind = "body" -> <<"call", "log", "return">>
      [] pc = "call" -> <<"call", "raise">>
      [] out.kind = "body" -> <<"open", "post", "log", "return">>
      [] retry -> <<"open", "post", "close", "sleep">>
      [] OTHER -> <<"open", "post", "close", "raise">>

\* mutant: log_api_call placed before the body is unpacked, so that a body
\* without the text or usage fields is logged too
StepsLogFirst(pc, out, retry) ==
    CASE out.kind = "fall" -> <<"return">>
      [] pc = "call" /\ out.kind = "body" -> <<"call", "log", "return">>
      [] pc = "call" -> <<"call", "raise">>
      [] out.kind = "body" -> <<"open", "post", "log", "close", "return">>
      [] out.kind = "malformed" -> <<"open", "post", "log", "close", "close", "raise">>
      [] retry -> <<"open", "post", "close", "sleep", "close">>
      [] OTHER -> <<"open", "post", "close", "close", "raise">>

\* What one step of a generation call does to its connection and to the
\* usage log, in the order of the statements executed.
\*   requests path, claude_client.py:160-215, one iteration of the loop:
\*     "open"   session = requests.Session()                        (160)
\*     "post"   session.post, raise_for_status, the unpacking   (162-180)
\*     "log"    log_api_call                                     (182-189)
\*     "close"  session.close() of a handler (194, 203, 212) and of the
\*              finally clause (215), which runs before a return value or
\*              an exception leaves the function and at the end of an
\*              iteration that goes on to the next one
\*     "sleep"  time.sleep(retry_delay)                          (197, 207)
\*   SDK paths, claude_client.py:119-135 / openai_client.py:115-135:
\*     "call"   the create call and the unpacking; "log" follows it
\*   a loop that ran out of iterations only returns
Steps(pc, out, retry) ==
    CASE out.kind = "fall" -> <<"return">>
      [] pc = "call" /\ out.kind = "body" -> <<"call", "log", "return">>
      [] pc = "call" -> <<"call", "raise">>
      [] out.kind = "body" -> <<"open", "post", "log", "close", "return">>
      [] retry -> <<"open", "post", "close", "sleep", "close">>
      [] OTHER -> <<"open", "post", "close", "close", "raise">>

\* mutant: a backoff that does not grow
BackoffConstant(retry_delay) == retry_delay

\* claude_client.py:198,208  retry_delay *= 2, in either handler
Backoff(retry_delay) == 2 * retry_delay

\* claude_client.py:191,201,210,213 / 135 / openai_client.py:135: the call
\* inside client.generate returns the text of outcome out or raises its
\* exception; a loop that runs out of iterations returns None
InnerEnd(out) ==
    IF out.kind \in {"body", "fall"}
    THEN [returned |-> TRUE, value |-> out.text]
    ELSE [returned |-> FALSE, value |-> Cause(out)]

\* the call inside client.generate of task i ends with outcome out;
\* client.generate and _generate_single follow, and the future finishes
EndCall(i, out, tr) ==
    LET t == tasks[i]
        inner == InnerEnd(out)
        gen == IF inner.returned THEN GenerateReturn(t.client, inner.value)
               ELSE GenerateRaise(t.client, inner.value)
    IN /\ Finish(i, gen, out, GenerateSingle(t.config, gen, i))
       /\ trace' = Record(tr, [ev |-> IF out.kind = "fall" THEN "fall" ELSE "end",
                               task |-> i, attempt |-> t.attempt, out |-> out,
                               slept |-> 0, inner |-> inner,
                               steps |-> Steps(t.pc, out, FALSE)])

\* mutant: a pool that starts a queued task whether or not a worker is free
StartUnbounded(i) ==
    /\ i \in DOMAIN tasks
    /\ tasks[i].pc = "queued"
    /\ \A j \in 1..(i - 1) : tasks[j].pc # "queued"
    /\ tasks' = [tasks EXCEPT ![i].pc =
                    IF Key(tasks[i].config) \notin DOMAIN clients THEN "construct" ELSE "fetch"]
    /\ UNCHANGED <<llm_configs, clients, addCalls, mainPc, max_workers, dispatchNo,
                   finished, early, responses, raised, tracing, otherVars, trace>>

\* ThreadPoolExecutor: a free worker takes the oldest queued task, and
\* multi_llm.py:48-49  _get_client tests `key not in self._clients`
Start(i) ==
    /\ i \in DOMAIN tasks
    /\ tasks[i].pc = "queued"
    /\ \A j \in 1..(i - 1) : tasks[j].pc # "queued"
    /\ Cardinality(Running) < max_workers
    /\ tasks' = [tasks EXCEPT ![i].pc =
                    IF Key(tasks[i].config) \notin DOMAIN clients THEN "construct" ELSE "fetch"]
    /\ UNCHANGED <<llm_configs, clients, addCalls, mainPc, max_workers, dispatchNo,
                   finished, early, responses, raised, tracing, otherVars, trace>>

\* the cache after self._clients[key] = client
Store(cache, key, client) ==
    [k \in DOMAIN cache \cup {key} |-> IF k = key THEN client ELSE cache[k]]

\* mutant: a _get_client that stores a placeholder under the key before the
\* constructor runs and leaves it there when the constructor raises
ConstructStoresPlaceholder(i, ok) ==
    /\ i \in DOMAIN tasks
    /\ tasks[i].pc = "construct"
    /\ IF ok
       THEN /\ clients' = Store(clients, Key(tasks[i].config),
                                NewClient(tasks[i].config, <<dispatchNo, i>>))
            /\ tasks' = [tasks EXCEPT ![i].pc = "fetch"]
            /\ UNCHANGED <<finished, trace>>
       ELSE /\ Finish(i, NoGen, [kind |-> "construct", status |-> 0, text |-> None],
                      GenerateSingle(tasks[i].config, [ok |-> FALSE, value |-> "ImportError"], i))
            /\ trace' = Record(trace, [ev |-> "unbuilt", task |-> i, attempt |-> 0,
                                       out |-> [kind |-> "construct", status |-> 0,
                                                text |-> None],
                                       slept |-> 0, inner |-> NoInner,
                                       steps |-> <<>>])
            /\ clients' = Store(clients, Key(tasks[i].config),
                                [kind |-> "placeholder", id |-> <<dispatchNo, i>>])
    /\ UNCHANGED <<llm_configs, addCalls, mainPc, max_workers, dispatchNo, early,
                   responses, raised, tracing, otherVars>>

\* multi_llm.py:50-64  the client is constructed and stored under the key;
\* a constructor (or its import) that raises ends _generate_single at 90-98
Construct(i, ok) ==
    /\ i \in DOMAIN tasks
    /\ tasks[i].pc = "construct"
    /\ IF ok
       THEN /\ clients' = Store(clients, Key(tasks[i].config),
                                NewClient(tasks[i].config, <<dispatchNo, i>>))
            /\ tasks' = [tasks EXCEPT ![i].pc = "fetch"]
            /\ UNCHANGED <<finished, trace>>
       ELSE /\ Finish(i, NoGen, [kind |-> "construct", status |-> 0, text |-> None],
                      GenerateSingle(tasks[i].config, [ok |-> FALSE, value |-> "ImportError"], i))
            /\ trace' = Record(trace, [ev |-> "unbuilt", task |-> i, attempt |-> 0,
                                       out |-> [kind |-> "construct", status |-> 0,
                                                text |-> None],
                                       slept |-> 0, inner |-> NoInner,
                                       steps |-> <<>>])
            /\ UNCHANGED clients
    /\ UNCHANGED <<llm_configs, addCalls, mainPc, max_workers, dispatchNo, early,
                   responses, raised, tracing, otherVars>>

\* multi_llm.py:65  return self._clients[key]; multi_llm.py:78 enters
\* client.generate, which picks its path (claude_client.py:87-92)
Fetch(i) ==
    /\ i \in DOMAIN tasks
    /\ tasks[i].pc = "fetch"
    /\ LET client == clients[Key(tasks[i].config)]
       IN tasks' = [tasks EXCEPT ![i].client = client,
                                 ![i].pc = IF client.use_direct_http THEN "post" ELSE "call"]
    /\ UNCHANGED <<llm_configs, clients, addCalls, mainPc, max_workers, dispatchNo,
                   finished, early, responses, raised, tracing, otherVars, trace>>

\* the loop that ran out of iterations is left without a return statement
FallThrough == [kind |-> "fall", status |-> 0, text |-> None]

\* claude_client.py:159-215  one iteration of the retry loop: the post and
\* what follows it, which is the return, the raise, or the handler's
\* time.sleep(retry_delay); retry_delay *= 2 (197-198, 207-208) and then the
\* next iteration of `for attempt in range(max_retries)`, if there is one
HttpAttempt(i, out) ==
    /\ i \in DOMAIN tasks
    /\ tasks[i].pc = "post"
    /\ LET t == tasks[i]
           retry == \/ out.kind = "transport" /\ RetryTransport(t.attempt)
                    \/ out.kind = "http" /\ RetryHttp(out.status, t.attempt)
           slept == Record(trace, [ev |-> "retry", task |-> i, attempt |-> t.attempt,
                                   out |-> out, slept |-> t.retry_delay,
                                   inner |-> NoInner,
                                   steps |-> Steps(t.pc, out, TRUE)])
       IN IF ~retry
          THEN EndCall(i, out, trace)
          ELSE IF t.attempt + 1 < max_retries
          THEN /\ tasks' = [tasks EXCEPT ![i].retry_delay = Backoff(@), ![i].attempt = @ + 1]
               /\ trace' = slept
               /\ UNCHANGED finished
          ELSE EndCall(i, FallThrough, slept)
    /\ UNCHANGED <<llm_configs, clients, addCalls, mainPc, max_workers, dispatchNo,
                   early, responses, raised, tracing, otherVars>>

\* claude_client.py:101-135 (_sdk_generate) / openai_client.py:115-135: the
\* one SDK call of a client that does not take the requests path
SdkCall(i, out) ==
    /\ i \in DOMAIN tasks
    /\ tasks[i].pc = "call"
    /\ EndCall(i, out, trace)
    /\ UNCHANGED <<llm_configs, clients, addCalls, mainPc, max_workers, dispatchNo,
                   early, responses, raised, tracing, otherVars>>

TaskIds == 1..MaxAdds

Next ==
    \/ \E config \in ConfigUniverse : AddLLM(config)
    \/ \E w \in PoolWidths : Dispatch(w)
    \/ Submit
    \/ AsCompleted
    \/ \E i \in TaskIds : Collect(i)
    \/ Return
    \/ \E i \in TaskIds : Start(i)
    \/ \E i \in TaskIds, ok \in BOOLEAN : Construct(i, ok)
    \/ \E i \in TaskIds : Fetch(i)
    \/ \E i \in TaskIds, out \in AttemptOutcomes : HttpAttempt(i, out)
    \/ \E i \in TaskIds, out \in CallOutcomes : SdkCall(i, out)

Spec == Init /\ [][Next]_vars

\* ------------------------------------------------ one call, fully recorded
\* A manager holding one enabled configuration; every network call, backoff
\* sleep and end of its generation call is recorded in trace.
InitCall ==
    /\ \E config \in { c \in ConfigUniverse : c.enabled } :
          /\ llm_configs = <<config>>
          /\ addCalls = <<config>>
    /\ clients = [k \in {} |-> NoClient]
    /\ mainPc = "idle"
    /\ max_workers = 0
    /\ dispatchNo = 0
    /\ tasks = <<>>
    /\ finished = <<>>
    /\ early = {}
    /\ responses = <<>>
    /\ raised = None
    /\ tracing = TRUE
    /\ trace = <<>>
    /\ ParserIdle /\ ReconcilerIdle /\ ProbeIdle /\ RunIdle

NextCall ==
    \/ \E w \in PoolWidths : Dispatch(w)
    \/ Submit
    \/ AsCompleted
    \/ Collect(1)
    \/ Return
    \/ Start(1)
    \/ \E ok \in BOOLEAN : Construct(1, ok)
    \/ Fetch(1)
    \/ \E out \in AttemptOutcomes : HttpAttempt(1, out)
    \/ \E out \in CallOutcomes : SdkCall(1, out)

SpecCall == InitCall /\ [][NextCall]_vars

\* ------------------------------------------------ two tasks, recorded
\* an OpenAI-compatible configuration with a cache key of its own
O3 == [provider |-> "deepseek", model |-> "m3", api_key |-> "k3", base_url |-> "u3", enabled |-> TRUE]

\* two configurations with different keys, added in either order, one pair
\* with a client on the retrying path
ConfigPairs == { <<O1, O3>>, <<O3, O1>>, <<A1, O1>> }

\* A manager holding two configurations; the end of every task is recorded
\* in trace, in the order the tasks end.
InitPair ==
    /\ llm_configs \in ConfigPairs
    /\ addCalls = llm_configs
    /\ clients = [k \in {} |-> NoClient]
    /\ mainPc = "idle"
    /\ max_workers = 0
    /\ dispatchNo = 0
    /\ tasks = <<>>
    /\ finished = <<>>
    /\ early = {}
    /\ responses = <<>>
    /\ raised = None
    /\ tracing = TRUE
    /\ trace = <<>>
    /\ ParserIdle /\ ReconcilerIdle /\ ProbeIdle /\ RunIdle

NextPair ==
    \/ \E w \in PoolWidths : Dispatch(w)
    \/ Submit
    \/ AsCompleted
    \/ \E i \in TaskIds : Collect(i)
    \/ Return
    \/ \E i \in TaskIds : Start(i)
    \/ \E i \in TaskIds, ok \in BOOLEAN : Construct(i, ok)
    \/ \E i \in TaskIds : Fetch(i)
    \/ \E i \in TaskIds, out \in AttemptOutcomes : HttpAttempt(i, out)
    \/ \E i \in TaskIds, out \in CallOutcomes : SdkCall(i, out)

SpecPair == InitPair /\ [][NextPair]_vars

\* the steps of the thread that called generate_parallel, and those of the
\* pool's worker that runs task i
MainStep ==
    \/ \E w \in PoolWidths : Dispatch(w)
    \/ Submit
    \/ AsCompleted
    \/ \E i \in TaskIds : Collect(i)
    \/ Return
TaskStep(i) ==
    \/ Start(i)
    \/ \E ok \in BOOLEAN : Construct(i, ok)
    \/ Fetch(i)
    \/ \E out \in AttemptOutcomes : HttpAttempt(i, out)
    \/ \E out \in CallOutcomes : SdkCall(i, out)

\* The same manager when every thread that can run does run, and every
\* network call and constructor ends: the caller's thread and each worker
\* of the pool take their next step, whatever its outcome, sooner or later.
SpecPairLive ==
    /\ InitPair
    /\ [][NextPair]_vars
    /\ WF_vars(MainStep)
    /\ \A i \in TaskIds : WF_vars(TaskStep(i))

\* ------------------------------------------------ several dispatches
\* generate_parallel calls made on one manager
MaxDispatches == 2

\* the configurations of the manager: one, two with one cache key, two with
\* different keys
ConfigLists == { <<A1>>, <<O1, O2>>, <<A1, O1>> }

InitSeq ==
    /\ llm_configs \in ConfigLists
    /\ addCalls = llm_configs
    /\ clients = [k \in {} |-> NoClient]
    /\ mainPc = "idle"
    /\ max_workers = 0
    /\ dispatchNo = 0
    /\ tasks = <<>>
    /\ finished = <<>>
    /\ early = {}
    /\ responses = <<>>
    /\ raised = None
    /\ tracing = FALSE
    /\ trace = <<>>
    /\ ParserIdle /\ ReconcilerIdle /\ ProbeIdle /\ RunIdle

\* generate_parallel has returned: its locals and its pool are gone, the
\* manager keeps llm_configs and _clients and can be called again
CallAgain ==
    /\ mainPc = "returned"
    /\ dispatchNo < MaxDispatches
    /\ mainPc' = "idle"
    /\ max_workers' = 0
    /\ tasks' = <<>>
    /\ finished' = <<>>
    /\ early' = {}
    /\ responses' = <<>>
    /\ UNCHANGED <<llm_configs, clients, addCalls, dispatchNo, raised, tracing, otherVars,
                   trace>>

NextSeq ==
    \/ \E w \in PoolWidths : Dispatch(w)
    \/ Submit
    \/ AsCompleted
    \/ \E i \in TaskIds : Collect(i)
    \/ Return
    \/ \E i \in TaskIds : Start(i)
    \/ \E i \in TaskIds, ok \in BOOLEAN : Construct(i, ok)
    \/ \E i \in TaskIds : Fetch(i)
    \/ \E i \in TaskIds, out \in AttemptOutcomes : HttpAttempt(i, out)
    \/ \E i \in TaskIds, out \in CallOutcomes : SdkCall(i, out)
    \/ CallAgain

SpecSeq == InitSeq /\ [][NextSeq]_vars

\* ------------------------------------------------ validate_api_key
\* validate_api_key calls made on one client
MaxProbes == 2

\* claude_client.py:321  max_retries = 2
probe_max_retries == 2
\* claude_client.py:322  retry_delay = 1.0
probe_retry_delay == 1

\* an anthropic configuration without base_url: its client uses the SDK
A2 == [provider |-> "anthropic", model |-> "m2", api_key |-> "k1", base_url |-> None, enabled |-> TRUE]
ProbedClients == { NewClient(A1, <<0, 0>>), NewClient(A2, <<0, 0>>) }

\* what one post of the probe can meet (claude_client.py:326-341): the
\* outcomes of a generation attempt, two more error statuses, and an
\* exception of requests that is none of Timeout, ConnectionError, HTTPError
ProbeOutcomes ==
    AttemptOutcomes \cup
    { [kind |-> "http", status |-> 403, text |-> None],
      [kind |-> "http", status |-> 429, text |-> None],
      [kind |-> "invalid", status |-> 0, text |-> None] }

NewProbe(client) ==
    [client |-> client, pc |-> "idle", attempt |-> 0, retry_delay |-> probe_retry_delay,
     result |-> None]

InitProbe ==
    /\ probe \in { NewProbe(client) : client \in ProbedClients }
    /\ probeNo = 0
    /\ probeTrace = <<>>
    /\ ManagerIdle /\ ParserIdle /\ ReconcilerIdle /\ RunIdle

\* claude_client.py:318-322,357  validate_api_key is entered and picks its path
ProbeStart ==
    /\ probe.pc \in {"idle", "done"}
    /\ probeNo < MaxProbes
    /\ probeNo' = probeNo + 1
    /\ probeTrace' = <<>>
    /\ probe' = [NewProbe(probe.client) EXCEPT
                    !.pc = IF probe.client.use_direct_http THEN "post" ELSE "call"]
    /\ UNCHANGED <<managerVars, parserVars, reconcilerVars, runVars>>

\* mutant: the test of line 346 off by one
ProbeRetryOffByOne(out, attempt) ==
    out.kind \in {"transport", "http"} /\ attempt < probe_max_retries

\* claude_client.py:344-348  the handler of Timeout, ConnectionError and
\* HTTPError (of any status) sleeps and goes on unless this was the last
\* iteration
ProbeRetry(out, attempt) ==
    out.kind \in {"transport", "http"} /\ attempt < probe_max_retries - 1

\* claude_client.py:342-356  what an iteration that ends the call returns:
\* True when raise_for_status passed (the body is not looked at), False from
\* either handler
ProbeReturn(out) == IF out.kind \in {"body", "malformed"} THEN "True" ELSE "False"

\* claude_client.py:324-356  one iteration of the loop of the requests path
ProbeAttempt(out) ==
    /\ probe.pc = "post"
    /\ LET event == [ev |-> "end", attempt |-> probe.attempt, out |-> out, slept |-> 0]
           slept == [event EXCEPT !.ev = "retry", !.slept = probe.retry_delay]
       IN IF ~ProbeRetry(out, probe.attempt)
          THEN /\ probe' = [probe EXCEPT !.pc = "done", !.result = ProbeReturn(out)]
               /\ probeTrace' = Append(probeTrace, event)
          ELSE IF probe.attempt + 1 < probe_max_retries
          THEN /\ probe' = [probe EXCEPT !.attempt = @ + 1, !.retry_delay = 2 * @]
               /\ probeTrace' = Append(probeTrace, slept)
          ELSE \* the loop is exhausted: the function ends without a return
               /\ probe' = [probe EXCEPT !.pc = "done", !.result = None]
               /\ probeTrace' = Append(Append(probeTrace, slept),
                                       [event EXCEPT !.ev = "fall", !.out = FallThrough])
    /\ UNCHANGED <<probeNo, managerVars, parserVars, reconcilerVars, runVars>>

\* claude_client.py:357-366  the SDK path: one messages.create call, True if
\* it returns and False from the outer handler if it raises
ProbeSdk(out) ==
    /\ probe.pc = "call"
    /\ probe' = [probe EXCEPT !.pc = "done",
                              !.result = IF out.kind = "raise" THEN "False" ELSE "True"]
    /\ probeTrace' = Append(probeTrace,
                            [ev |-> "end", attempt |-> 0, out |-> out, slept |-> 0])
    /\ UNCHANGED <<probeNo, managerVars, parserVars, reconcilerVars, runVars>>

NextProbe ==
    \/ ProbeStart
    \/ \E out \in ProbeOutcomes : ProbeAttempt(out)
    \/ \E out \in CallOutcomes : ProbeSdk(out)

SpecProbe == InitProbe /\ [][NextProbe]_vars

\* ------------------------------------------------ texts and JSON values
\* A text is None or a string, and a string is kept as its sequence of
\* lexical tokens: the punctuation of JSON, string literals, and "w", a word
\* of prose (which is no JSON token).
NoneText == [isNone |-> TRUE, toks |-> <<>>]
Text(toks) == [isNone |-> FALSE, toks |-> toks]

Names == {"ideas", "title", "X", "Y", "unique_ideas", "summary"}
Q(name) == "\"" \o name \o "\""
StringTokens == { Q(name) : name \in Names }
Unquote(tok) == CHOOSE name \in Names : Q(name) = tok

\* decoded JSON values, tagged by their Python type
Str(name) == [t |-> "str", v |-> name]
Arr(seq) == [t |-> "list", v |-> seq]
Obj(fn) == [t |-> "dict", v |-> fn]
EmptyDict == Obj([k \in {} |-> Unset])
\* d[key] = value
SetItem(d, key, value) ==
    Obj([k \in DOMAIN d.v \cup {key} |-> IF k = key THEN value ELSE d.v[k]])
\* a Python str value that holds a whole text
RawText(text) == [t |-> "text", v |-> text.toks]

\* json's decoder on the tokens from position i on: the value decoded and
\* the position after it, or a failure (json.JSONDecodeError)
DecodeFailed == [ok |-> FALSE, value |-> Unset, next |-> 0]

RECURSIVE DecodeValue(_, _), DecodeMembers(_, _, _), DecodeElements(_, _, _)

DecodeValue(toks, i) ==
    IF i > Len(toks) THEN DecodeFailed
    ELSE IF toks[i] \in StringTokens
    THEN [ok |-> TRUE, value |-> Str(Unquote(toks[i])), next |-> i + 1]
    ELSE IF toks[i] = "{"
    THEN IF i + 1 <= Len(toks) /\ toks[i + 1] = "}"
         THEN [ok |-> TRUE, value |-> EmptyDict, next |-> i + 2]
         ELSE DecodeMembers(toks, i + 1, EmptyDict)
    ELSE IF toks[i] = "["
    THEN IF i + 1 <= Len(toks) /\ toks[i + 1] = "]"
         THEN [ok |-> TRUE, value |-> Arr(<<>>), next |-> i + 2]
         ELSE DecodeElements(toks, i + 1, <<>>)
    ELSE DecodeFailed

\* the members of an object from position i on, d holding those before
DecodeMembers(toks, i, d) ==
    IF i + 1 > Len(toks) \/ toks[i] \notin StringTokens \/ toks[i + 1] # ":"
    THEN DecodeFailed
    ELSE LET member == DecodeValue(toks, i + 2)
         IN IF ~member.ok \/ member.next > Len(toks) THEN DecodeFailed
            ELSE LET more == SetItem(d, Unquote(toks[i]), member.value)
                 IN IF toks[member.next] = "}"
                    THEN [ok |-> TRUE, value |-> more, next |-> member.next + 1]
                    ELSE IF toks[member.next] = ","
                    THEN DecodeMembers(toks, member.next + 1, more)
                    ELSE DecodeFailed

\* the elements of an array from position i on, seq holding those before
DecodeElements(toks, i, seq) ==
    LET element == DecodeValue(toks, i)
    IN IF ~element.ok \/ element.next > Len(toks) THEN DecodeFailed
       ELSE LET more == Append(seq, element.value)
            IN IF toks[element.next] = "]"
               THEN [ok |-> TRUE, value |-> Arr(more), next |-> element.next + 1]
               ELSE IF toks[element.next] = ","
               THEN DecodeElements(toks, element.next + 1, more)
               ELSE DecodeFailed

\* json.loads: one value and nothing after it
JsonLoads(toks) ==
    LET r == DecodeValue(toks, 1)
    IN IF r.ok /\ r.next = Len(toks) + 1 THEN r ELSE DecodeFailed

\* brainstorm.py:120  re.search(r'\{[\s\S]*\}', text): the leftmost "{" that
\* has a "}" after it, and greedily everything up to the last "}"
Opens(toks) == { i \in DOMAIN toks : toks[i] = "{" }
Closes(toks) == { i \in DOMAIN toks : toks[i] = "}" }
Min(S) == CHOOSE x \in S : \A y \in S : x <= y
Max(S) == CHOOSE x \in S : \A y \in S : x >= y
HasMatch(toks) ==
    Opens(toks) # {} /\ Closes(toks) # {} /\ Min(Opens(toks)) < Max(Closes(toks))
MatchGroup(toks) == SubSeq(toks, Min(Opens(toks)), Max(Closes(toks)))

\* how a call ended
Returned(value) == [raised |-> None, value |-> value]
Raised(exception) == [raised |-> exception, value |-> Unset]

\* dict.get(key, default)
DictGet(d, key, default) == IF key \in DOMAIN d.v THEN d.v[key] ELSE default

\* mutant: data.get("ideas", []) in place of data.get("ideas", [data])
ParseIdeasEmptyDefault(text) ==
    IF text.isNone THEN Raised("TypeError")
    ELSE IF ~HasMatch(text.toks) THEN Returned(Arr(<<>>))
    ELSE LET data == JsonLoads(MatchGroup(text.toks))
         IN IF data.ok
            THEN Returned(DictGet(data.value, "ideas", Arr(<<>>)))
            ELSE Returned(Arr(<<Obj("raw_response" :> RawText(text))>>))

\* brainstorm.py:116-126  _parse_ideas.  re.search raises TypeError on None,
\* which the handler of line 125 (json.JSONDecodeError only) does not catch.
ParseIdeas(text) ==
    IF text.isNone THEN Raised("TypeError")
    ELSE IF ~HasMatch(text.toks) THEN Returned(Arr(<<>>))
    ELSE LET data == JsonLoads(MatchGroup(text.toks))
         IN IF data.ok
            THEN Returned(DictGet(data.value, "ideas", Arr(<<data.value>>)))
            ELSE Returned(Arr(<<Obj("raw_response" :> RawText(text))>>))

\* ------------------------------------------------ the answers of a model
\* one idea record, as tokens and as the value it decodes to
IdeaTokens(name) == <<"{", Q("title"), ":", Q(name), "}">>
IdeaRecord(name) == Obj("title" :> Str(name))

\* objects with an "ideas" key, each with the list it holds
IdeasObjects ==
    { [toks |-> <<"{", Q("ideas"), ":", "[">> \o IdeaTokens("X") \o <<"]", "}">>,
       ideas |-> Arr(<<IdeaRecord("X")>>)],
      [toks |-> <<"{", Q("ideas"), ":", "[">> \o IdeaTokens("X") \o <<",">>
                    \o IdeaTokens("Y") \o <<"]", "}">>,
       ideas |-> Arr(<<IdeaRecord("X"), IdeaRecord("Y")>>)],
      [toks |-> <<"{", Q("ideas"), ":", "[", "]", "}">>,
       ideas |-> Arr(<<>>)] }

\* other things found where an object is expected: an object without the
\* key, an object whose "ideas" is a string, an empty object, a truncated
\* object, an object with a stray word, one brace, prose, nothing
OtherCores ==
    { IdeaTokens("X"),
      <<"{", Q("ideas"), ":", Q("Y"), "}">>,
      <<"{", "}">>,
      <<"{", Q("ideas"), ":", "[">> \o IdeaTokens("X"),
      <<"{", Q("ideas"), ":", "w", "}">>,
      <<"{">>,
      <<"w">>,
      <<>> }

\* text before the object: none, prose, prose that holds a pair of braces
PlainPrefixes == { <<>>, <<"w">>, <<"w", "w">> }
Prefixes == PlainPrefixes \cup { <<"w", "{", "w", "}", "w">> }
\* text after the object: none, prose, prose with braces in it
PlainSuffixes == { <<>>, <<"w">> }
Suffixes == PlainSuffixes \cup { <<"w", "{", "w", "}">>, <<"w", "}">>, <<"{", "w">> }

Answers ==
    { Text(pre \o core \o post) :
        pre \in Prefixes,
        core \in { o.toks : o \in IdeasObjects } \cup OtherCores,
        post \in Suffixes }

\* what resp.content of a result with success=True can be (multi_llm.py:84-89
\* passes on whatever client.generate returned, None included)
Contents == Answers \cup {NoneText}

\* ------------------------------------------------ one _parse_ideas call
InitParse ==
    /\ response \in Contents
    /\ parsePc = "given"
    /\ parsed = Unset
    /\ ManagerIdle /\ ReconcilerIdle /\ ProbeIdle /\ RunIdle

\* brainstorm.py:192  ideas = self._parse_ideas(resp.content)
ParseCall ==
    /\ parsePc = "given"
    /\ parsed' = ParseIdeas(response)
    /\ parsePc' = "parsed"
    /\ UNCHANGED <<response, managerVars, reconcilerVars, probeVars, runVars>>

NextParse == ParseCall

SpecParse == InitParse /\ [][NextParse]_vars

\* ------------------------------------------------ one _summarize_ideas call
\* the combined idea lists handed to _summarize_ideas
IdeaLists ==
    { <<>>,
      <<IdeaRecord("X")>>,
      <<IdeaRecord("X"), IdeaRecord("Y")>>,
      <<IdeaRecord("Y"), IdeaRecord("X")>>,
      <<IdeaRecord("X"), IdeaRecord("X")>> }

\* brainstorm.py:211  the summary of no ideas
EmptySummary ==
    Obj("unique_ideas" :> Arr(<<>>) @@ "summary" :> Str("No ideas generated"))

\* mutant: a fallback summary that drops the ideas
FallbackSummaryNoIdeas(ideas, answer) ==
    Obj("unique_ideas" :> Arr(<<>>) @@ "summary" :> RawText(answer))

\* brainstorm.py:248  the summary of an answer that does not parse
FallbackSummary(ideas, answer) ==
    Obj("unique_ideas" :> Arr(ideas) @@ "summary" :> RawText(answer))

\* brainstorm.py:240-248  what _summarize_ideas returns for the answer of the
\* model: the object decoded from the matched span, or the fallback
SummaryOf(ideas, answer) ==
    IF HasMatch(answer.toks) /\ JsonLoads(MatchGroup(answer.toks)).ok
    THEN JsonLoads(MatchGroup(answer.toks)).value
    ELSE FallbackSummary(ideas, answer)

InitSummarize ==
    /\ all_ideas \in IdeaLists
    /\ summaryPc = "given"
    /\ generateCalls = <<>>
    /\ summary = Unset
    /\ ManagerIdle /\ ParserIdle /\ ProbeIdle /\ RunIdle

\* mutant: _summarize_ideas without the test of line 210
SummarizeStartNoGuard ==
    /\ summaryPc = "given"
    /\ generateCalls' = Append(generateCalls, [ideas |-> all_ideas, result |-> Unset])
    /\ summaryPc' = "called"
    /\ UNCHANGED <<all_ideas, summary, managerVars, parserVars, probeVars, runVars>>

\* brainstorm.py:210-238  no ideas: the empty summary is returned at once;
\* otherwise the prompt is built from the ideas and self.client.generate is
\* entered
SummarizeStart ==
    /\ summaryPc = "given"
    /\ IF all_ideas = <<>>
       THEN /\ summary' = Returned(EmptySummary)
            /\ summaryPc' = "done"
            /\ UNCHANGED generateCalls
       ELSE /\ generateCalls' = Append(generateCalls, [ideas |-> all_ideas, result |-> Unset])
            /\ summaryPc' = "called"
            /\ UNCHANGED summary
    /\ UNCHANGED <<all_ideas, managerVars, parserVars, probeVars, runVars>>

\* mutant: an answer that does not parse is asked for once more
SummarizeReturnAskAgain(answer) ==
    /\ summaryPc = "called"
    /\ IF SummaryOf(all_ideas, answer) = FallbackSummary(all_ideas, answer)
          /\ Len(generateCalls) < 2
       THEN /\ generateCalls' = Append(generateCalls, [ideas |-> all_ideas, result |-> Unset])
            /\ UNCHANGED <<summary, summaryPc>>
       ELSE /\ generateCalls' = [generateCalls EXCEPT
                                   ![Len(generateCalls)].result = Returned(RawText(answer))]
            /\ summary' = Returned(SummaryOf(all_ideas, answer))
            /\ summaryPc' = "done"
    /\ UNCHANGED <<all_ideas, managerVars, parserVars, probeVars, runVars>>

\* brainstorm.py:233-248  self.client.generate returns the answer (a str:
\* ClaudeClient.generate takes len() of what it returns) and it is parsed
SummarizeReturn(answer) ==
    /\ summaryPc = "called"
    /\ generateCalls' = [generateCalls EXCEPT
                            ![Len(generateCalls)].result = Returned(RawText(answer))]
    /\ summary' = Returned(SummaryOf(all_ideas, answer))
    /\ summaryPc' = "done"
    /\ UNCHANGED <<all_ideas, managerVars, parserVars, probeVars, runVars>>

\* brainstorm.py:233-238  self.client.generate raises (claude_client.py:97-99)
\* and nothing in _summarize_ideas catches it
SummarizeRaise ==
    /\ summaryPc = "called"
    /\ generateCalls' = [generateCalls EXCEPT
                            ![Len(generateCalls)].result = Raised("RuntimeError")]
    /\ summary' = Raised("RuntimeError")
    /\ summaryPc' = "done"
    /\ UNCHANGED <<all_ideas, managerVars, parserVars, probeVars, runVars>>

NextSummarize ==
    \/ SummarizeStart
    \/ \E answer \in Answers : SummarizeReturn(answer)
    \/ SummarizeRaise

SpecSummarize == InitSummarize /\ [][NextSummarize]_vars

\* ------------------------------------------------ one multi-provider run
MaxResults == 2

\* the providers whose results a run is handed
RunConfigs == <<O1, A1, O3>>
RunConfig(k) == RunConfigs[((k - 1) % Len(RunConfigs)) + 1]

\* the texts of the successful results of a run: an object with one idea,
\* with two, with none; prose; an idea object without the "ideas" key; a
\* truncated object; an object whose "ideas" is a string, and one whose
\* "ideas" is a single idea object instead of a list; None
RunAnswers ==
    { Text(<<"{", Q("ideas"), ":", "[">> \o IdeaTokens("X") \o <<"]", "}">>),
      Text(<<"w", "{", Q("ideas"), ":", "[">> \o IdeaTokens("X") \o <<",">>
              \o IdeaTokens("Y") \o <<"]", "}">>),
      Text(<<"{", Q("ideas"), ":", "[", "]", "}">>),
      Text(<<"w">>),
      Text(IdeaTokens("Y")),
      Text(<<"{", Q("ideas"), ":", "[">> \o IdeaTokens("X") \o <<"}">>),
      Text(<<"{", Q("ideas"), ":", Q("Y"), "}">>),
      Text(<<"{", Q("ideas"), ":">> \o IdeaTokens("X") \o <<"}">>) }
RunContents == RunAnswers \cup {NoneText}

\* multi_llm.py:19-26, 84-98  the k-th result of a dispatch: a success with
\* the content client.generate returned, or a failure with content "" and
\* the error text
SuccessResult(k, content) ==
    [provider |-> RunConfig(k).provider, model |-> RunConfig(k).model,
     content |-> content, success |-> TRUE, error |-> None]
FailureResult(k) ==
    [provider |-> RunConfig(k).provider, model |-> RunConfig(k).model,
     content |-> Text(<<>>), success |-> FALSE, error |-> "RuntimeError"]

\* what generate_parallel can return: one result per configuration; a
\* successful one holds what the client's generate returned, which is a str
\* for a ClaudeClient (claude_client.py:94) and a str or None for an
\* OpenAIClient (openai_client.py:122, 135)
ResultsAt(k) ==
    {FailureResult(k)}
    \cup { SuccessResult(k, content) : content \in RunAnswers }
    \cup IF RunConfig(k).provider = "anthropic" THEN {} ELSE {SuccessResult(k, NoneText)}
ResultLists ==
    UNION { { rs \in [1..n -> UNION { ResultsAt(k) : k \in 1..n }] :
                \A k \in 1..n : rs[k] \in ResultsAt(k) } :
            n \in 1..MaxResults }

\* the characters of a string, the keys of a dict: what a for loop or
\* list.extend draws from a value that is no list.  (A dict yields its keys
\* in insertion order; the objects of the model keep no order, and those of
\* a run hold one key.)
Characters(name) ==
    CASE name = "X" -> <<"X">>
      [] name = "Y" -> <<"Y">>
      [] name = "ideas" -> <<"i", "d", "e", "a", "s">>
      [] name = "title" -> <<"t", "i", "t", "l", "e">>
      [] name = "summary" -> <<"s", "u", "m", "m", "a", "r", "y">>
      [] name = "unique_ideas" ->
            <<"u", "n", "i", "q", "u", "e", "_", "i", "d", "e", "a", "s">>
RECURSIVE KeysOf(_)
KeysOf(fn) ==
    IF DOMAIN fn = {} THEN <<>>
    ELSE LET key == CHOOSE k \in DOMAIN fn : TRUE
         IN <<key>> \o KeysOf([k \in DOMAIN fn \ {key} |-> fn[k]])
Items(value) ==
    CASE value.t = "list" -> value.v
      [] value.t = "dict" -> [k \in DOMAIN KeysOf(value.v) |-> Str(KeysOf(value.v)[k])]
      [] value.t = "str" -> [k \in DOMAIN Characters(value.v) |-> Str(Characters(value.v)[k])]

\* brainstorm.py:193-198  BrainstormReport(provider, model, ideas, raw_response)
BrainstormReport(resp, ideas) ==
    [provider |-> resp.provider, model |-> resp.model, ideas |-> ideas,
     raw_response |-> resp.content]

\* brainstorm.py:191-200  the body of the loop for one response: the locals
\* after it, or the exception that left it
Process(rs, acc) ==
    LET resp == rs[1]
        parsed_ideas == ParseIdeas(resp.content)
    IN IF ~resp.success THEN acc
       ELSE IF parsed_ideas.raised # None
       THEN [acc EXCEPT !.raised = parsed_ideas.raised]
       ELSE [reports |-> Append(acc.reports, BrainstormReport(resp, parsed_ideas.value)),
             all_ideas |-> acc.all_ideas \o Items(parsed_ideas.value),
             raised |-> None]

\* brainstorm.py:187-200  self.reports = [], all_ideas = [] and the loop over
\* the responses, which an exception leaves at once
RECURSIVE Loop(_, _)
Loop(rs, acc) ==
    IF Len(rs) = 0 \/ acc.raised # None THEN acc
    ELSE Loop(Tail(rs), Process(<<Head(rs)>>, acc))

\* a run inside generate_parallel (brainstorm.py:178-183); the attributes
\* are those of a new IdeaGenerator
InitRun ==
    /\ results = <<>>
    /\ reports = <<>>
    /\ self_summary = EmptyDict
    /\ self_ideas = Arr(<<>>)
    /\ runPc = "dispatch"
    /\ runNo = 1
    /\ origin = [reports |-> 0, summary |-> 0, ideas |-> 0]
    /\ ManagerIdle /\ ParserIdle /\ ReconcilerIdle /\ ProbeIdle

\* brainstorm.py:178-203  generate_parallel returns rs; the loop builds the
\* reports and all_ideas; _summarize_ideas is entered with all_ideas, unless
\* _parse_ideas raised, which ends the run with the reports built so far
RunCollect(rs) ==
    /\ runPc = "dispatch"
    /\ results' = rs
    /\ LET after == Loop(rs, [reports |-> <<>>, all_ideas |-> <<>>, raised |-> None])
       IN /\ reports' = after.reports
          /\ origin' = [origin EXCEPT !.reports = runNo]
          /\ IF after.raised # None
             THEN /\ runPc' = "raised"
                  /\ UNCHANGED <<all_ideas, summaryPc>>
             ELSE /\ runPc' = "summarize"
                  /\ all_ideas' = after.all_ideas
                  /\ summaryPc' = "given"
    /\ UNCHANGED <<self_summary, self_ideas, runNo, generateCalls, summary,
                   managerVars, parserVars, probeVars>>

\* multi_llm.py:110-111  generate_parallel raises ValueError (no
\* configuration): the run ends before line 187
RunDispatchRaise ==
    /\ runPc = "dispatch"
    /\ runPc' = "raised"
    /\ UNCHANGED <<results, reports, self_summary, self_ideas, runNo, origin,
                   managerVars, parserVars, reconcilerVars, probeVars>>

\* mutant: self.ideas taken from the summary with an empty default
RunFinishEmptyDefault ==
    /\ runPc = "summarize"
    /\ summaryPc = "done"
    /\ IF summary.raised # None
       THEN /\ runPc' = "raised"
            /\ UNCHANGED <<self_summary, self_ideas, origin>>
       ELSE /\ self_summary' = summary.value
            /\ self_ideas' = DictGet(summary.value, "unique_ideas", Arr(<<>>))
            /\ origin' = [origin EXCEPT !.summary = runNo, !.ideas = runNo]
            /\ runPc' = "returned"
    /\ UNCHANGED <<results, reports, runNo, managerVars, parserVars, reconcilerVars,
                   probeVars>>

\* brainstorm.py:203-206  _summarize_ideas returned or raised; on a return
\* self.summary and self.ideas are assigned
RunFinish ==
    /\ runPc = "summarize"
    /\ summaryPc = "done"
    /\ IF summary.raised # None
       THEN /\ runPc' = "raised"
            /\ UNCHANGED <<self_summary, self_ideas, origin>>
       ELSE /\ self_summary' = summary.value
            /\ self_ideas' = DictGet(summary.value, "unique_ideas", Arr(all_ideas))
            /\ origin' = [origin EXCEPT !.summary = runNo, !.ideas = runNo]
            /\ runPc' = "returned"
    /\ UNCHANGED <<results, reports, runNo, managerVars, parserVars, reconcilerVars,
                   probeVars>>

NextRun ==
    \/ \E rs \in ResultLists : RunCollect(rs)
    \/ RunDispatchRaise
    \/ SummarizeStart
    \/ \E answer \in RunAnswers : SummarizeReturn(answer)
    \/ SummarizeRaise
    \/ RunFinish

SpecRun == InitRun /\ [][NextRun]_vars

\* ------------------------------------------------ several runs
\* _generate_multi_llm calls made on one IdeaGenerator
MaxRuns == 2

\* what the dispatches of these runs return: one idea, two ideas from two
\* providers, a failure only, a success without content
SomeResultLists ==
    { <<SuccessResult(1, Text(<<"{", Q("ideas"), ":", "[">> \o IdeaTokens("X") \o <<"]", "}">>))>>,
      <<FailureResult(1), SuccessResult(2, Text(IdeaTokens("Y")))>>,
      <<FailureResult(1)>>,
      <<SuccessResult(1, NoneText)>> }

\* the answers of the reconciling call: an object with the key, an object
\* without it, prose
SomeAnswers ==
    { Text(<<"{", Q("unique_ideas"), ":", "[">> \o IdeaTokens("X") \o <<"]", "}">>),
      Text(<<"{", Q("summary"), ":", Q("X"), "}">>),
      Text(<<"w">>) }

\* brainstorm.py:171-183  the run is over, the generator keeps reports,
\* summary and ideas, and _generate_multi_llm is called again: new locals,
\* generate_parallel is entered
RunAgain ==
    /\ runPc \in {"returned", "raised"}
    /\ runNo < MaxRuns
    /\ runNo' = runNo + 1
    /\ runPc' = "dispatch"
    /\ results' = <<>>
    /\ all_ideas' = <<>>
    /\ summaryPc' = "idle"
    /\ generateCalls' = <<>>
    /\ summary' = Unset
    /\ UNCHANGED <<reports, self_summary, self_ideas, origin,
                   managerVars, parserVars, probeVars>>

NextRuns ==
    \/ \E rs \in SomeResultLists : RunCollect(rs)
    \/ RunDispatchRaise
    \/ SummarizeStart
    \/ \E answer \in SomeAnswers : SummarizeReturn(answer)
    \/ SummarizeRaise
    \/ RunFinish
    \/ RunAgain

SpecRuns == InitRun /\ [][NextRuns]_vars

\* ===================================================================
\* Properties
\* ===================================================================
Populated(str) == str # None /\ str # Empty

\* the responses list holds exactly one response of task i
OneResponseOf(i) == Cardinality({ k \in DOMAIN responses : responses[k].task = i }) = 1

\* C1: a dispatch over N >= 1 configurations returns exactly N results, and
\* exactly one of them belongs to each configuration (it carries that
\* configuration's provider and model), whatever the outcomes were.
C1_OneResultPerConfig ==
    mainPc = "returned" =>
        /\ Len(llm_configs) >= 1
        /\ Len(responses) = Len(llm_configs)
        /\ \A i \in DOMAIN llm_configs :
              /\ OneResponseOf(i)
              /\ \A k \in DOMAIN responses :
                    responses[k].task = i =>
                        /\ responses[k].provider = llm_configs[i].provider
                        /\ responses[k].model = llm_configs[i].model

\* a dispatch over two configurations returned one success and one failure
C1_Witness ==
    /\ mainPc = "returned"
    /\ Len(llm_configs) = 2
    /\ \E k \in DOMAIN responses : responses[k].success
    /\ \E k \in DOMAIN responses : ~responses[k].success

\* C2: under every interleaving, a task whose client.generate failed gets a
\* response with success = FALSE and the error of that failure, populated; a
\* task whose client.generate returned text gets success = TRUE with that
\* text, whatever its siblings did; and the returned list holds every task's
\* own response.
C2_FailureIsolated ==
    /\ \A i \in Done :
          tasks[i].out.kind # "construct" =>
              IF tasks[i].gen.ok
              THEN /\ tasks[i].response.success
                   /\ tasks[i].response.content = tasks[i].gen.value
              ELSE /\ ~tasks[i].response.success
                   /\ tasks[i].response.error = tasks[i].gen.value
                   /\ Populated(tasks[i].response.error)
    /\ mainPc = "returned" =>
          \A i \in DOMAIN tasks : \E k \in DOMAIN responses : responses[k] = tasks[i].response

\* two tasks ran in the default pool; the generate call of one failed, the
\* other's returned "t1" and was reported as such
C2_Witness ==
    /\ mainPc = "returned"
    /\ max_workers = default_max_workers
    /\ \E i, j \in DOMAIN tasks :
          /\ i # j
          /\ tasks[i].out.kind \notin {"construct", "body"}
          /\ ~tasks[i].response.success
          /\ tasks[j].gen.ok
          /\ tasks[j].response.success
          /\ tasks[j].response.content = "t1"

\* C3: every task that holds a client for a key holds the instance the cache
\* has for that key, so no two tasks use distinct clients for one key.
C3_SingleFlight ==
    \A i \in DOMAIN tasks :
        tasks[i].client # NoClient =>
            /\ tasks[i].client = clients[Key(tasks[i].config)]
            /\ \A j \in DOMAIN tasks :
                  (tasks[j].client # NoClient /\ Key(tasks[j].config) = Key(tasks[i].config))
                      => tasks[j].client = tasks[i].client

\* ------------------------------------------------ the recorded call
\* the recorded call took the retrying requests path
DirectCall == llm_configs = <<A1>>
CallDone == tasks # <<>> /\ tasks[1].pc = "done" /\ tasks[1].out.kind # "construct"

\* the network calls of the recorded call, and its backoff sleeps
Attempts == SelectSeq(trace, LAMBDA e : e.ev \in {"retry", "end"})
Retries == SelectSeq(trace, LAMBDA e : e.ev = "retry")
Sleeps == [k \in DOMAIN Retries |-> Retries[k].slept]

\* C4: a call on the retrying path whose every attempt fails with a
\* connection error or timeout makes exactly 3 attempts, sleeps 1s and 2s and
\* not after the third, and is reported with success = FALSE and a populated
\* error.
C4_TransportExhausts ==
    (/\ DirectCall
     /\ CallDone
     /\ \A k \in DOMAIN Attempts : Attempts[k].out.kind = "transport")
    => /\ Len(Attempts) = 3
       /\ Sleeps = <<1, 2>>
       /\ trace[Len(trace)].ev = "end"
       /\ ~tasks[1].response.success
       /\ Populated(tasks[1].response.error)
       /\ mainPc = "returned" => responses = <<tasks[1].response>>

C4_Witness ==
    /\ DirectCall
    /\ mainPc = "returned"
    /\ Len(trace) = 3
    /\ \A k \in DOMAIN trace : trace[k].out.kind = "transport"
    /\ ~responses[1].success

C6_OtherStatusNotRetried ==
    DirectCall =>
        \A k \in DOMAIN trace :
            (trace[k].out.kind = "http" /\ trace[k].out.status # BadGateway)
                => /\ k = Len(trace)
                   /\ trace[k].ev = "end"
                   /\ trace[k].slept = 0
                   /\ ~trace[k].inner.returned
                   /\ tasks[1].pc = "done"
                   /\ ~tasks[1].response.success

C6_Witness ==
    /\ DirectCall
    /\ Len(trace) = 2
    /\ trace[1].ev = "retry"
    /\ trace[2].out.kind = "http" /\ trace[2].out.status = 500
    /\ tasks[1].pc = "done"

\* C7: the loop makes at most 3 attempts and ends either by returning the
\* text of its last attempt, a successful one, or by raising the error of
\* its last attempt; it never runs out of iterations and falls through.
C7_BoundedNoFallThrough ==
    DirectCall =>
        /\ Len(Attempts) <= max_retries
        /\ \A k \in DOMAIN trace : trace[k].ev # "fall"
        /\ CallDone =>
              LET e == trace[Len(trace)]
              IN /\ e.ev = "end"
                 /\ e = Attempts[Len(Attempts)]
                 /\ \/ /\ e.inner.returned
                       /\ e.out.kind = "body"
                       /\ e.inner.value = e.out.text
                    \/ /\ ~e.inner.returned
                       /\ e.out.kind \in {"transport", "http", "malformed"}
                       /\ e.inner.value = Cause(e.out)

C7_Witness ==
    /\ DirectCall
    /\ CallDone
    /\ Len(trace) = 3
    /\ trace[1].out.kind = "transport"
    /\ trace[2].out.kind = "http"
    /\ trace[3].out.kind = "http" /\ trace[3].out.status = BadGateway
    /\ ~trace[3].inner.returned

\* C8: a dispatch with no configuration raises at once: no task is
\* submitted, no pool is created, no client is constructed, nothing is
\* collected, and the cache is as it was.
C8_NoConfigFailsFast ==
    (dispatchNo > 0 /\ Len(llm_configs) = 0) =>
        /\ mainPc = "raised"
        /\ raised = "No LLMs configured"
        /\ tasks = <<>>
        /\ max_workers = 0
        /\ DOMAIN clients = {}
        /\ responses = <<>>

C8_Witness ==
    /\ mainPc = "raised"
    /\ Len(llm_configs) = 0
    /\ Len(addCalls) = MaxAdds

\* C9: only the empty configuration list makes a dispatch raise; with
\* configurations, every construction or generation failure ends as a
\* response with success = FALSE in a full result list.
C9_OnlyConfigErrorAborts ==
    /\ mainPc = "raised" <=> raised # None
    /\ raised # None => (Len(llm_configs) = 0 /\ raised = "No LLMs configured")
    /\ \A i \in Done : tasks[i].response.exception = None
    /\ mainPc = "returned" =>
          /\ Len(responses) = Len(llm_configs)
          /\ \A i \in DOMAIN tasks :
                (tasks[i].out.kind = "construct" \/ ~tasks[i].gen.ok)
                    => /\ ~tasks[i].response.success
                       /\ \E k \in DOMAIN responses : responses[k] = tasks[i].response

\* a dispatch returned although one client could not be constructed and
\* another's generate call failed
C9_Witness ==
    /\ mainPc = "returned"
    /\ \E i, j \in DOMAIN tasks :
          /\ tasks[i].out.kind = "construct"
          /\ tasks[j].out.kind \in {"raise", "transport", "http", "malformed"}
    /\ \A k \in DOMAIN responses : ~responses[k].success

\* C10: the content of every response is non-empty exactly when its success
\* flag is set.
C10_ContentIffSuccess ==
    \A i \in Done :
        tasks[i].response.success <=> tasks[i].response.content \notin {None, Empty}

\* the tasks inside client.generate: at the post of the retrying path or at
\* the one call of the other clients
InFlight == { i \in DOMAIN tasks : tasks[i].pc \in {"post", "call"} }

\* C11: during a dispatch of width c, at most c tasks are held by a worker at
\* any moment, so at most c generate calls are in flight; a task beyond the
\* first c has started only if as many earlier ones have finished.
C11_BoundedInFlight ==
    mainPc \in {"submit", "collect", "returned"} =>
        /\ max_workers \in PoolWidths
        /\ InFlight \subseteq Running
        /\ Cardinality(InFlight) <= max_workers
        /\ Cardinality(Running) <= max_workers
        /\ Cardinality(Running \cup Done) <= max_workers + Cardinality(Done)
        /\ (Cardinality(Running) = max_workers /\ Done = {})
              => \A i \in DOMAIN tasks : i > max_workers => tasks[i].pc = "queued"

\* two tasks, a pool of one worker: one generate call is in flight and the
\* other task still waits in the queue
C11_Witness ==
    /\ max_workers = 1
    /\ Len(tasks) = 2
    /\ \E i, j \in DOMAIN tasks : i \in InFlight /\ tasks[j].pc = "queued"

\* ------------------------------------------------ the parser
\* C12: for a text made of prose, then a balanced object with an "ideas" key,
\* then anything at all, the parser returns the list under that key of that
\* object.
C12_FirstObjectParsed ==
    parsePc = "parsed" =>
        \A pre \in PlainPrefixes, o \in IdeasObjects, post \in Suffixes :
            response = Text(pre \o o.toks \o post) => parsed = Returned(o.ideas)

\* the spec's example: prose, the object holding the one idea "X", prose
C12_Example ==
    /\ parsePc = "parsed"
    /\ response = Text(<<"w", "w", "{", Q("ideas"), ":", "[", "{", Q("title"), ":", Q("X"),
                         "}", "]", "}", "w">>)
    /\ parsed = Returned(Arr(<<IdeaRecord("X")>>))

\* the fallback list: one record holding the whole input as its raw text
Fallback(text) == Arr(<<Obj("raw_response" :> RawText(text))>>)

\* C13: for a text with no brace at all the parser returns the one-record
\* fallback list, whose raw text is the whole input.
C13_NoObjectFallsBack ==
    (/\ parsePc = "parsed"
     /\ ~response.isNone
     /\ Opens(response.toks) = {} /\ Closes(response.toks) = {})
    => parsed = Returned(Fallback(response))

\* C14: the parser never raises, for any content a successful result can
\* carry, and whenever the span it finds does not decode it returns the
\* one-record fallback list holding the whole input.
C14_TotalAndLossless ==
    parsePc = "parsed" =>
        /\ parsed.raised = None
        /\ (/\ ~response.isNone
            /\ HasMatch(response.toks)
            /\ ~JsonLoads(MatchGroup(response.toks)).ok)
           => parsed = Returned(Fallback(response))

\* the half of C14 the code keeps: a span that does not decode gives the
\* fallback list with the whole input
C14_DecodeFailureFallsBack ==
    (/\ parsePc = "parsed"
     /\ ~response.isNone
     /\ HasMatch(response.toks)
     /\ ~JsonLoads(MatchGroup(response.toks)).ok)
    => parsed = Returned(Fallback(response))

\* ------------------------------------------------ the reconciler
\* C15: reconciling no ideas returns a summary whose unique-idea list is
\* empty and makes no generation call.
C15_EmptyInputNoCall ==
    all_ideas = <<>> =>
        /\ generateCalls = <<>>
        /\ summaryPc \in {"given", "done"}
        /\ summaryPc = "done" =>
              /\ summary.raised = None
              /\ DictGet(summary.value, "unique_ideas", Unset) = Arr(<<>>)

C15_Witness ==
    /\ all_ideas = <<>>
    /\ summaryPc = "done"
    /\ summary = Returned(EmptySummary)

\* C16: reconciling one or more ideas makes exactly one generation call,
\* whether the answer parses, does not parse, or the call fails.
C16_ExactlyOneCall ==
    all_ideas # <<>> =>
        /\ summaryPc = "given" => generateCalls = <<>>
        /\ summaryPc \in {"called", "done"} =>
              /\ Len(generateCalls) = 1
              /\ generateCalls[1].ideas = all_ideas
        /\ summaryPc = "done" => generateCalls[1].result # Unset

\* the one call was answered with prose only, and the summary is the fallback
C16_Witness ==
    /\ summaryPc = "done"
    /\ Len(all_ideas) = 2
    /\ Len(generateCalls) = 1
    /\ generateCalls[1].result = Returned(RawText(Text(<<"w">>)))
    /\ summary = Returned(FallbackSummary(all_ideas, Text(<<"w">>)))

\* C17: when the answer holds no object, or the span found does not decode,
\* the summary returned has the input ideas, all and in their order, as its
\* unique ideas, and the raw answer as its free-text summary.
C17_FallbackKeepsIdeas ==
    (summaryPc = "done" /\ all_ideas # <<>>) =>
        \A answer \in Answers :
            (/\ generateCalls[1].result = Returned(RawText(answer))
             /\ (~HasMatch(answer.toks) \/ ~JsonLoads(MatchGroup(answer.toks)).ok))
            => /\ summary.raised = None
               /\ summary.value.t = "dict"
               /\ DOMAIN summary.value.v = {"unique_ideas", "summary"}
               /\ summary.value.v["unique_ideas"] = Arr(all_ideas)
               /\ summary.value.v["summary"] = RawText(answer)

\* two ideas, an answer whose object is truncated: both ideas are kept
C17_Witness ==
    /\ summaryPc = "done"
    /\ all_ideas = <<IdeaRecord("X"), IdeaRecord("Y")>>
    /\ \E answer \in Answers :
          /\ HasMatch(answer.toks)
          /\ ~JsonLoads(MatchGroup(answer.toks)).ok
          /\ generateCalls[1].result = Returned(RawText(answer))
          /\ summary = Returned(FallbackSummary(all_ideas, answer))

\* ------------------------------------------------ the cache over time
\* C18: an entry of the client cache, once made, is never removed and never
\* replaced by another client, over any number of dispatches: the client
\* for a key is constructed once and reused from then on.
C18_CacheEntriesStable ==
    [][\A key \in DOMAIN clients :
          key \in DOMAIN clients' /\ clients'[key] = clients[key]]_vars

\* the part of C18 that holds whenever the tasks run one after another: with
\* a pool of one worker no entry is ever replaced
C18_SerialCacheStable ==
    [][max_workers = 1 =>
          \A key \in DOMAIN clients :
              key \in DOMAIN clients' /\ clients'[key] = clients[key]]_vars

\* a second dispatch found the client of the first one in the cache and a
\* task of it holds that client
C18_Reused ==
    /\ dispatchNo = 2
    /\ \E i \in DOMAIN tasks :
          /\ tasks[i].client # NoClient
          /\ tasks[i].client.id[1] = 1
          /\ tasks[i].client = clients[Key(tasks[i].config)]

\* ------------------------------------------------ the configuration list
\* C19: after any add_llm calls the configuration list holds exactly the
\* configurations added with enabled = TRUE, in the order they were added,
\* and never a disabled one.
C19_OnlyEnabledStored ==
    /\ llm_configs = SelectSeq(addCalls, LAMBDA config : config.enabled)
    /\ \A k \in DOMAIN llm_configs : llm_configs[k].enabled

\* a disabled and an enabled configuration were added, and only the enabled
\* one is stored
C19_Witness ==
    /\ Len(addCalls) >= 2
    /\ \E k \in DOMAIN addCalls : ~addCalls[k].enabled
    /\ \E k \in DOMAIN addCalls : addCalls[k].enabled
    /\ Len(llm_configs) < Len(addCalls)
    /\ llm_configs # <<>>

\* ------------------------------------------------ credential validation
\* the posts of the running probe, and its backoff sleeps
ProbePosts == SelectSeq(probeTrace, LAMBDA e : e.ev \in {"retry", "end"})
ProbeSleeps == SelectSeq(probeTrace, LAMBDA e : e.ev = "retry")
PassedStatus(out) == out.kind \in {"body", "malformed"}

\* C20: a probe on the retrying path makes at most 2 posts with at most one
\* sleep, of 1s, between them; it never ends without a boolean; it returns
\* True at the first post whose status passes and False when none does.
C20_ProbeBoundedBoolean ==
    probe.client.use_direct_http =>
        /\ Len(ProbePosts) <= probe_max_retries
        /\ Len(ProbeSleeps) <= 1
        /\ \A k \in DOMAIN ProbeSleeps : ProbeSleeps[k].slept = probe_retry_delay
        /\ \A k \in DOMAIN probeTrace :
              /\ probeTrace[k].ev # "fall"
              /\ probeTrace[k].ev = "retry" => ~PassedStatus(probeTrace[k].out)
              /\ (probeTrace[k].ev = "retry" /\ k = Len(probeTrace)) => probe.pc = "post"
              /\ PassedStatus(probeTrace[k].out) => k = Len(probeTrace)
        /\ probe.pc = "done" =>
              /\ probe.result \in {"True", "False"}
              /\ probeTrace # <<>>
              /\ probeTrace[Len(probeTrace)].ev = "end"
              /\ probeTrace[Len(probeTrace)].slept = 0
              /\ probe.result = "True" <=> PassedStatus(probeTrace[Len(probeTrace)].out)

\* a probe that timed out, slept 1s, was answered 200 and returned True
C20_Witness ==
    /\ probe.client.use_direct_http
    /\ probe.pc = "done"
    /\ Len(probeTrace) = 2
    /\ probeTrace[1].out.kind = "transport" /\ probeTrace[1].slept = 1
    /\ probeTrace[2].out.kind = "body"
    /\ probe.result = "True"

\* C21: in a probe on the retrying path only a connection failure, a
\* timeout or a 502 is followed by a second post; any other error status
\* ends the probe at that post, with no sleep.
C21_ProbeRetriesOnlyTransient ==
    probe.client.use_direct_http =>
        \A k \in DOMAIN probeTrace :
            LET e == probeTrace[k]
            IN /\ e.ev = "retry" =>
                    \/ e.out.kind = "transport"
                    \/ e.out.kind = "http" /\ e.out.status = BadGateway
               /\ (e.out.kind = "http" /\ e.out.status # BadGateway) =>
                    /\ e.ev = "end"
                    /\ e.slept = 0
                    /\ k = Len(probeTrace)
                    /\ probe.pc = "done"

\* the part of C21 the code keeps: a connection failure, a timeout or a 502
\* at the first post is followed by a sleep and a second post
C21_TransientRetried ==
    probe.client.use_direct_http =>
        \A k \in DOMAIN probeTrace :
            LET e == probeTrace[k]
            IN (/\ e.attempt = 0
                /\ \/ e.out.kind = "transport"
                   \/ e.out.kind = "http" /\ e.out.status = BadGateway)
               => e.ev = "retry" /\ e.slept = probe_retry_delay

\* ------------------------------------------------ the generate boundary
\* str(e) of the exceptions that can arise inside a client's generate
Causes ==
    { Cause(out) : out \in AttemptOutcomes \cup CallOutcomes }
    \cup {"object of type 'NoneType' has no len()"}

\* the client the recorded call ran on
CallClient == NewClient(tasks[1].config, <<dispatchNo, 1>>)

\* C22: whenever the generate call of a client fails (the retries ran out,
\* an error status was not retried, the body lacked the text or usage
\* fields), what leaves generate is the client's one wrapped error, whose
\* message holds the underlying cause; the cause never leaves unwrapped.
C22_FailuresWrapped ==
    CallDone =>
        LET e == trace[Len(trace)]
            gen == tasks[1].gen
        IN /\ ~e.inner.returned =>
                 /\ ~gen.ok
                 /\ e.inner.value = Cause(e.out)
                 /\ gen.value = WrapError(CallClient, e.inner.value)
           /\ ~gen.ok =>
                 /\ gen.value \notin Causes
                 /\ \E cause \in Causes : gen.value = WrapError(CallClient, cause)

\* the body of the second attempt lacked a field: the KeyError left generate
\* wrapped in the client's error
C22_Witness ==
    /\ DirectCall
    /\ CallDone
    /\ Len(trace) = 2
    /\ trace[2].out.kind = "malformed"
    /\ tasks[1].gen = [ok |-> FALSE, value |-> "Claude API error: KeyError"]

\* ------------------------------------------------ the order of results
\* the tasks in the order they ended
Completion ==
    LET ends == SelectSeq(trace, LAMBDA e : e.ev \in {"end", "fall", "unbuilt"})
    IN [k \in DOMAIN ends |-> ends[k].task]
\* the place of task i in a sequence of task numbers that holds it
PlaceIn(seq, i) == CHOOSE k \in DOMAIN seq : seq[k] = i

\* C23: the list dispatch returns is in completion order: the response of a
\* task that ended earlier stands before that of a task that ended later.
C23_CompletionOrder ==
    mainPc = "returned" =>
        \A a, b \in DOMAIN responses :
            a < b => PlaceIn(Completion, responses[a].task)
                       < PlaceIn(Completion, responses[b].task)

\* the part of C23 the code keeps: the tasks that end while the results are
\* being collected are handed over in the order they end, after those that
\* had ended before
C23_LateInOrder ==
    /\ \A a, b \in DOMAIN finished :
          a < b => PlaceIn(Completion, finished[a]) < PlaceIn(Completion, finished[b])
    /\ \A i \in early, k \in DOMAIN finished :
          PlaceIn(Completion, i) < PlaceIn(Completion, finished[k])

\* the second configuration's task ended first and its response stands first
C23_Witness ==
    /\ mainPc = "returned"
    /\ Completion = <<2, 1>>
    /\ responses[1].task = 2
    /\ responses[2].task = 1

\* ------------------------------------------------ the steps of a call
\* the steps of the events of tr, one after the other, each with the number
\* of the attempt that made it
RECURSIVE StepLog(_)
StepLog(tr) ==
    IF Len(tr) = 0 THEN <<>>
    ELSE LET e == tr[Len(tr)]
         IN StepLog(SubSeq(tr, 1, Len(tr) - 1))
              \o [k \in DOMAIN e.steps |-> [attempt |-> e.attempt, op |-> e.steps[k]]]
CallLog == StepLog(trace)
\* the usage records the recorded call has emitted
UsageRecords == SelectSeq(CallLog, LAMBDA st : st.op = "log")

\* C24: a generation call that has ended emitted exactly one usage record if
\* it succeeded and none if it failed.
C24_OneRecordIffSuccess ==
    CallDone =>
        Len(UsageRecords) = (IF tasks[1].gen.ok THEN 1 ELSE 0)

\* the part of C24 the code keeps: an attempt that is retried emits no
\* record, a call emits at most one, and the one emitted comes from the
\* attempt, the last one, whose text the inner call returned
C24_RecordByReturningAttempt ==
    /\ Len(UsageRecords) <= 1
    /\ \A k \in DOMAIN trace :
          LET e == trace[k]
              logged == \E n \in DOMAIN e.steps : e.steps[n] = "log"
          IN /\ e.ev = "retry" => ~logged
             /\ logged <=> (e.ev = "end" /\ e.inner.returned /\ e.inner.value = e.out.text)
             /\ logged => k = Len(trace) /\ tasks[1].pc = "done"
    /\ (CallDone /\ tasks[1].gen.ok) => Len(UsageRecords) = 1

\* the third attempt's text was returned after two retried failures, with
\* one record
C24_Witness ==
    /\ DirectCall
    /\ CallDone
    /\ Len(trace) = 3
    /\ tasks[1].gen = [ok |-> TRUE, value |-> "t1"]
    /\ Len(UsageRecords) = 1
    /\ UsageRecords[1].attempt = 2

\* ------------------------------------------------ connections and backoff
\* the attempts whose session is open after the first n steps of the call
OpenAfter(n) ==
    { a \in 0..max_retries :
        \E k \in 1..n :
            /\ CallLog[k] = [attempt |-> a, op |-> "open"]
            /\ \A j \in (k + 1)..n : CallLog[j] # [attempt |-> a, op |-> "close"] }
\* the places of the log where attempt a does op
Places(a, op) == { k \in DOMAIN CallLog : CallLog[k] = [attempt |-> a, op |-> op] }

\* C25: the attempts of one call on the requests path come one after the
\* other, each on a session of its own: never are two sessions open, every
\* post goes over the session its own attempt opened, attempt k+1 opens its
\* session only after attempt k has failed, closed its session and slept,
\* and no session is open when the call returns or raises.
C25_SequentialFreshConnections ==
    DirectCall =>
        /\ \A n \in 0..Len(CallLog) : Cardinality(OpenAfter(n)) <= 1
        /\ \A k \in DOMAIN trace : trace[k].ev \in {"retry", "end"} => trace[k].attempt = k - 1
        /\ \A n \in DOMAIN CallLog :
              LET a == CallLog[n].attempt
              IN /\ CallLog[n].op = "post" =>
                      /\ OpenAfter(n) = {a}
                      /\ Cardinality(Places(a, "open")) = 1
                 /\ (CallLog[n].op = "open" /\ a > 0) =>
                      /\ OpenAfter(n - 1) = {}
                      /\ trace[a].ev = "retry"
                      /\ trace[a].out.kind \in {"transport", "http"}
                      /\ \E c \in Places(a - 1, "close"), z \in Places(a - 1, "sleep") :
                            c < z /\ z < n
                 /\ CallLog[n].op \in {"return", "raise"} =>
                      /\ n = Len(CallLog)
                      /\ OpenAfter(n - 1) = {}
        /\ CallDone => OpenAfter(Len(CallLog)) = {}

\* three attempts, each on its own session, the third returned a text
C25_Witness ==
    /\ DirectCall
    /\ CallDone
    /\ Len(trace) = 3
    /\ tasks[1].gen.ok
    /\ \A a \in 0..2 : Cardinality(Places(a, "open")) = 1
    /\ OpenAfter(Len(CallLog)) = {}
    /\ \E n \in DOMAIN CallLog : OpenAfter(n) = {2}

C26_WitnessOtherOrder ==
    /\ DirectCall
    /\ CallDone
    /\ Len(Attempts) = 3
    /\ Attempts[1].out.kind = "http" /\ Attempts[1].out.status = BadGateway
    /\ Attempts[2].out.kind = "transport"
    /\ Sleeps = <<1, 2>>

\* ------------------------------------------------ the reports of a run
\* the successful results of the run, in the order of the results
Successes == SelectSeq(results, LAMBDA resp : resp.success)
\* the ideas of the reports, one report after the other
RECURSIVE ReportIdeas(_)
ReportIdeas(reps) ==
    IF Len(reps) = 0 THEN <<>> ELSE Items(reps[1].ideas) \o ReportIdeas(Tail(reps))

\* C27: once the results of a run have been processed, the reports are one
\* per successful result, in the order of the results, each with that
\* result's provider, model and raw text; failed results add nothing; and
\* the ideas handed to the reconciler are the reports' idea sequences one
\* after the other.
C27_ReportsMirrorSuccesses ==
    runPc \in {"summarize", "returned", "raised"} /\ results # <<>> =>
        /\ Len(reports) = Len(Successes)
        /\ \A k \in DOMAIN reports :
              /\ reports[k].provider = Successes[k].provider
              /\ reports[k].model = Successes[k].model
              /\ reports[k].raw_response = Successes[k].content
        /\ runPc \in {"summarize", "returned"} => all_ideas = ReportIdeas(reports)

\* the part of C27 the code keeps: when the content of every successful
\* result is a text
C27_TextResults ==
    (/\ runPc \in {"summarize", "returned", "raised"}
     /\ results # <<>>
     /\ \A k \in DOMAIN Successes : ~Successes[k].content.isNone)
    => /\ Len(reports) = Len(Successes)
       /\ \A k \in DOMAIN reports :
             reports[k] = [provider |-> Successes[k].provider,
                           model |-> Successes[k].model,
                           ideas |-> ParseIdeas(Successes[k].content).value,
                           raw_response |-> Successes[k].content]
       /\ all_ideas = ReportIdeas(reports)
       /\ \A k \in DOMAIN generateCalls : generateCalls[k].ideas = all_ideas

\* two successes: two reports, and their three ideas in order
C27_Witness ==
    /\ runPc = "returned"
    /\ Len(results) = 2
    /\ results[1].success /\ results[2].success
    /\ Len(reports) = 2
    /\ all_ideas = <<IdeaRecord("X"), IdeaRecord("X"), IdeaRecord("Y")>>

\* ------------------------------------------------ what a dispatch leaves
\* C28: a dispatch leaves the configuration list as it found it: over any
\* number of dispatches the list holds the configurations that were added,
\* in the order they were added, each as it was added, and every task runs
\* on its own unchanged configuration; only the cache grows.
C28_ConfigsUntouched ==
    /\ llm_configs = addCalls
    /\ llm_configs \in ConfigLists
    /\ \A i \in DOMAIN tasks : tasks[i].config = addCalls[i]

\* a second dispatch has returned, the cache has been filled, the list is
\* the one that was added
C28_Witness ==
    /\ dispatchNo = 2
    /\ mainPc = "returned"
    /\ DOMAIN clients # {}
    /\ llm_configs = <<A1, O1>>

\* C29: with every thread running and every call ending, a dispatch that
\* has begun returns; when it has returned every task it submitted is done,
\* none is queued, running or inside a generate call, each has its one
\* response in the list, and nothing is added to the list from then on.
C29_ReturnsWhenAllDone ==
    /\ (mainPc = "submit") ~> (mainPc = "returned")
    /\ [](mainPc = "returned" =>
            /\ Len(tasks) = Len(llm_configs)
            /\ Done = DOMAIN tasks
            /\ Running = {}
            /\ InFlight = {}
            /\ \A i \in DOMAIN tasks : OneResponseOf(i))
    /\ [][mainPc = "returned" => responses' = responses /\ tasks' = tasks]_vars

\* a dispatch of two tasks has returned, one of them after three attempts
C29_Witness ==
    /\ mainPc = "returned"
    /\ Len(tasks) = 2
    /\ Len(responses) = 2
    /\ \E k \in DOMAIN trace : trace[k].ev = "end" /\ trace[k].attempt = 2

\* ------------------------------------------------ whose client
\* the client was built from the provider, model, credential and endpoint
\* of the configuration
BuiltFrom(client, config) ==
    /\ client.provider = config.provider
    /\ client.model = config.model
    /\ client.api_key = config.api_key
    /\ client.base_url = config.base_url

\* C30: configurations that differ are never served by one client: the
\* client a task fetched from the cache was built from the task's own
\* configuration.
C30_OwnClient ==
    \A i \in DOMAIN tasks :
        tasks[i].pc \in {"post", "call"} => BuiltFrom(tasks[i].client, tasks[i].config)

\* the part of C30 the code keeps: configurations with different provider
\* or model have different keys here, the client under a key was built from
\* a configuration with that key, and a task is served by the client found
\* under its own key
C30_OwnKey ==
    /\ \A c, d \in Range(llm_configs) :
          (c.provider # d.provider \/ c.model # d.model) => Key(c) # Key(d)
    /\ \A key \in DOMAIN clients :
          \E c \in Range(llm_configs) : Key(c) = key /\ BuiltFrom(clients[key], c)
    /\ \A i \in DOMAIN tasks :
          tasks[i].pc \in {"post", "call"} =>
              /\ tasks[i].client.provider = tasks[i].config.provider
              /\ tasks[i].client.model = tasks[i].config.model

\* two configurations with different keys, each task on a client of its own
C30_Witness ==
    /\ llm_configs = <<A1, O1>>
    /\ \A i \in {1, 2} : i \in DOMAIN tasks /\ tasks[i].pc \in {"post", "call"}
    /\ BuiltFrom(tasks[1].client, A1)
    /\ BuiltFrom(tasks[2].client, O1)

\* ------------------------------------------------ a constructor that fails
\* the tasks whose client could not be constructed
Unbuilt == { i \in DOMAIN tasks : tasks[i].pc = "done" /\ tasks[i].out.kind = "construct" }

\* C31: a failed construction becomes the failed result of its provider and
\* leaves nothing in the cache: every entry is a client that a constructor
\* returned, none was stored by a task whose construction failed, and a
\* task goes on to generate only with a client found under its key, so that
\* a dispatch that finds no entry constructs again.
C31_FailedConstructionLeavesNoEntry ==
    /\ \A key \in DOMAIN clients :
          /\ clients[key].kind \in {"ClaudeClient", "OpenAIClient"}
          /\ \E c \in Range(llm_configs) : Key(c) = key
    /\ \A i \in Unbuilt :
          /\ ~tasks[i].response.success
          /\ Populated(tasks[i].response.error)
          /\ tasks[i].response.provider = tasks[i].config.provider
          /\ tasks[i].response.exception = None
          /\ \A key \in DOMAIN clients : clients[key].id # <<dispatchNo, i>>
          /\ (\A j \in DOMAIN tasks : j # i => Key(tasks[j].config) # Key(tasks[i].config))
                => Key(tasks[i].config) \notin DOMAIN clients
    /\ \A i \in DOMAIN tasks :
          /\ tasks[i].pc \in {"fetch", "post", "call"} => Key(tasks[i].config) \in DOMAIN clients
          /\ tasks[i].pc = "construct" => tasks[i].client = NoClient
    /\ (mainPc = "returned" /\ Unbuilt = DOMAIN tasks /\ dispatchNo = 1) => DOMAIN clients = {}

\* the construction failed in the first dispatch (the cache was empty when
\* the second began) and the second dispatch constructed the client itself
C31_Witness ==
    /\ llm_configs = <<A1>>
    /\ dispatchNo = 2
    /\ mainPc = "returned"
    /\ Key(A1) \in DOMAIN clients
    /\ clients[Key(A1)].id = <<2, 1>>
    /\ responses[1].success

\* the construction failed in both dispatches
C31_FailedTwice ==
    /\ llm_configs = <<A1>>
    /\ dispatchNo = 2
    /\ mainPc = "returned"
    /\ Unbuilt = {1}
    /\ DOMAIN clients = {}

\* ------------------------------------------------ what a run leaves
RunOver == runPc \in {"returned", "raised"}

\* C32: when a run is over, however it ended, the generator does not hold
\* the reports of this run together with the summary or the ideas of an
\* earlier run.
C32_SameRun ==
    RunOver =>
        ~(/\ origin.reports = runNo
          /\ \/ origin.summary \in 1..(runNo - 1)
             \/ origin.ideas \in 1..(runNo - 1))

\* the part of C32 the code keeps: after a run that returned, the reports,
\* the summary and the ideas are all its own; summary and ideas are always
\* assigned together; a run that raised inside generate_parallel left all
\* three as they were
C32_ReturnedRunIsWhole ==
    /\ runPc = "returned" => origin = [reports |-> runNo, summary |-> runNo, ideas |-> runNo]
    /\ origin.summary = origin.ideas
    /\ origin.summary <= origin.reports
    /\ (runPc = "raised" /\ results = <<>>) => origin.reports < runNo

\* a second run has returned with reports, summary and ideas of its own
C32_Witness ==
    /\ runNo = 2
    /\ runPc = "returned"
    /\ origin = [reports |-> 2, summary |-> 2, ideas |-> 2]
    /\ Len(reports) = 1

\* the reconciling call of the second run failed: the reports are those of
\* the second run, the summary and the ideas those of the first
C32_StaleAfterReconcilerFailure ==
    /\ runNo = 2
    /\ runPc = "raised"
    /\ summaryPc = "done"
    /\ summary = Raised("RuntimeError")
    /\ origin = [reports |-> 2, summary |-> 1, ideas |-> 1]
    /\ Len(reports) = 1
    /\ self_ideas = Arr(<<IdeaRecord("X")>>)

\* ------------------------------------------------ the ideas of a run
\* C33: after a run has returned, the generator's ideas are the summary's
\* "unique_ideas" when the summary has that key and the whole combined idea
\* sequence otherwise, so that an answer that decodes to an object without
\* the key loses none of the ideas of the reports.
C33_IdeasFromSummaryOrAll ==
    runPc = "returned" =>
        /\ self_summary = summary.value
        /\ self_summary.t = "dict"
        /\ IF "unique_ideas" \in DOMAIN self_summary.v
           THEN self_ideas = self_summary.v["unique_ideas"]
           ELSE /\ self_ideas = Arr(all_ideas)
                /\ self_ideas.v = ReportIdeas(reports)
                /\ all_ideas # <<>>

\* the reconciling answer was an object without the key: the ideas are the
\* idea of the one report
C33_Witness ==
    /\ runPc = "returned"
    /\ self_summary = Obj("summary" :> Str("X"))
    /\ Len(reports) = 1
    /\ self_ideas = Arr(<<Obj("title" :> Str("Y"))>>)

\* the reconciling answer had the key: the ideas are its list
C33_WitnessWithKey ==
    /\ runPc = "returned"
    /\ all_ideas = <<Obj("title" :> Str("Y"))>>
    /\ self_ideas = Arr(<<IdeaRecord("X")>>)
    /\ self_summary = Obj("unique_ideas" :> Arr(<<IdeaRecord("X")>>))

\* ------------------------------------------------ an object without "ideas"
\* C34: when the span the parser found decodes to an object without an
\* "ideas" key, the parser returns the list holding that one object, which
\* is neither the raw-text fallback nor the empty list; when the object has
\* the key, the parser returns the key's value as it is, list or not.
C34_ObjectWithoutKeyIsTheIdea ==
    (/\ parsePc = "parsed"
     /\ ~response.isNone
     /\ HasMatch(response.toks)
     /\ JsonLoads(MatchGroup(response.toks)).ok)
    => LET data == JsonLoads(MatchGroup(response.toks)).value
       IN /\ data.t = "dict"
          /\ parsed.raised = None
          /\ IF "ideas" \in DOMAIN data.v
             THEN parsed.value = data.v["ideas"]
             ELSE /\ parsed.value = Arr(<<data>>)
                  /\ parsed.value # Fallback(response)
                  /\ parsed.value # Arr(<<>>)
          /\ \A pre \in PlainPrefixes, post \in PlainSuffixes :
                /\ response = Text(pre \o IdeaTokens("X") \o post)
                      => parsed.value = Arr(<<IdeaRecord("X")>>)
                /\ response = Text(pre \o <<"{", "}">> \o post)
                      => parsed.value = Arr(<<EmptyDict>>)
                /\ response = Text(pre \o <<"{", Q("ideas"), ":", Q("Y"), "}">> \o post)
                      => parsed.value = Str("Y")

\* prose around a single idea object: the list of that one object
C34_Witness ==
    /\ parsePc = "parsed"
    /\ response = Text(<<"w", "{", Q("title"), ":", Q("X"), "}", "w">>)
    /\ parsed = Returned(Arr(<<Obj("title" :> Str("X"))>>))

\* an object whose "ideas" is a string: the string is returned
C34_WitnessValueAsIs ==
    /\ parsePc = "parsed"
    /\ response = Text(<<"{", Q("ideas"), ":", Q("Y"), "}">>)
    /\ parsed = Returned(Str("Y"))

\* ------------------------------------------------ a malformed body
\* C35: a 2xx response whose body does not decode or lacks the text or
\* usage fields ends the call at that attempt, also when attempts remain:
\* no sleep and no further attempt follow it, no usage record is emitted,
\* and the call has failed with the client's wrapped error.
C35_MalformedNotRetried ==
    DirectCall =>
        \A k \in DOMAIN trace :
            trace[k].out.kind = "malformed" =>
                /\ trace[k].out.status = 200
                /\ k = Len(trace)
                /\ trace[k].ev = "end"
                /\ trace[k].slept = 0
                /\ \A n \in DOMAIN trace[k].steps : trace[k].steps[n] \notin {"sleep", "log"}
                /\ Len(UsageRecords) = 0
                /\ Len(Sleeps) = k - 1
                /\ Len(Attempts) = k
                /\ ~trace[k].inner.returned
                /\ tasks[1].pc = "done"
                /\ ~tasks[1].gen.ok
                /\ tasks[1].gen.value = WrapError(CallClient, Cause(trace[k].out))
                /\ ~tasks[1].response.success

\* the first attempt got a malformed body: one attempt, two left unused
C35_Witness ==
    /\ DirectCall
    /\ mainPc = "returned"
    /\ Len(trace) = 1
    /\ trace[1].out.kind = "malformed"
    /\ trace[1].attempt = 0
    /\ trace[1].attempt < max_retries - 1
    /\ Sleeps = <<>>
    /\ ~responses[1].success

====
